------------------------------ MODULE MCBackup ------------------------------
(* A collected record, a user's record, the model's words about them, and the   *)
(* wipe that follows.                                                          *)
EXTENDS Backup, TLC

MCRecord == 1 .. 4
MCOwner  == 1 :> "ingestor" @@ 2 :> "api" @@ 3 :> "enricher" @@ 4 :> "api"

\* The wipe after collected and user's records, or after the model's words.
MCHistories == {{1, 2, 4}, {3, 4}}

MCInvocation == {<<"aow-restore", {}>>, <<"aow", {}>>,
                 <<"aow-restore", {"--overwrite-running-target"}>>,
                 <<"aow", {"--overwrite-live-project"}>>}
MCServices   == {Producer, {"api"}}
=============================================================================
