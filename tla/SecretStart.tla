---------------------------- MODULE SecretStart ----------------------------
(***************************************************************************)
(* The start of the secret provider: NewSecretProvider of                  *)
(* pkg/bootstrap/secret/secret.go with its retries until the startup timer *)
(* has elapsed, the regeneration of a token that the store refuses, and    *)
(* LoadServiceSecrets of secure.go, which stores the secrets of the        *)
(* service's secrets file and overwrites the file without them.            *)
(*                                                                         *)
(* The token file, the secrets file and the store outlive the process;     *)
(* ServiceRun starts and restarts it.                                      *)
(***************************************************************************)
EXTENDS Naturals

CONSTANTS
  Secrets,    \* names of the secrets in the secrets file
  MaxUpdates  \* bound: updates of each secret by the running service

ASSUME StartAssumption == MaxUpdates \in Nat

VARIABLES
  spc,        \* where NewSecretProvider is
  tokenFile,  \* "none" (missing or without a token), "expired", "good"
  secretsFile,\* Torn, or the entry of each secret: "given", "hollow" (neither
              \* imported nor with data), "imported"
  store,      \* the secret store, external: version of each secret, 0 for none
  scrub,      \* DisableScrubSecretsFile is not set
  security,   \* IsSecurityEnabled
  elapsed,    \* the startup timer has elapsed
  lastErr,    \* err, as the loop leaves it
  contents,   \* what has been read of the secrets file
  unseen,     \* its secrets that the loop of seedSecrets has not come to
  seedErr,    \* seedingErrs # nil
  provider,   \* what is put into the container: "insecure", "secure", "nil"
  spoiled     \* history: the secrets file was overwritten for nothing, or its
              \* overwriting failed, or the process died, half way

disk == <<tokenFile, secretsFile, store, spoiled>>
settings == <<scrub, security>>
seeding == <<contents, unseen, seedErr>>
secretVars == <<spc, disk, settings, elapsed, lastErr, seeding, provider>>

\* A file that was truncated, and nothing or not everything written to it.
Torn == [s \in Secrets |-> "torn"]

\* UnmarshalServiceSecretsJson, with its check that what is to be imported is there.
Valid(file) == file # Torn /\ \A s \in Secrets : file[s] # "hollow"

\* A file with nothing to import, or none: SecretsFile is not set.
NoFile == [s \in Secrets |-> "imported"]

InitSecrets ==
  /\ spc = "idle" /\ provider = "none" /\ lastErr = "" /\ elapsed = FALSE
  /\ contents = NoFile /\ unseen = {} /\ seedErr = FALSE /\ spoiled = FALSE
  /\ tokenFile \in {"none", "expired", "good"}
  /\ secretsFile \in [Secrets -> {"given", "hollow", "imported"}]
  /\ store = [s \in Secrets |-> IF secretsFile[s] = "imported" THEN 1 ELSE 0]
  /\ scrub \in BOOLEAN /\ security \in BOOLEAN

Goto(from, to) == spc = from /\ spc' = to

-----------------------------------------------------------------------------
(* NewSecretProvider *)

\* Without security there is nothing to try; BuildSecretStoreConfig may fail.
NewSecretProvider ==
  /\ \/ ~security /\ Goto("starting", "done") /\ provider' = "insecure"
     \/ security /\ Goto("starting", "loop") /\ UNCHANGED provider
     \/ security /\ Goto("starting", "failed") /\ UNCHANGED provider
  /\ UNCHANGED <<disk, settings, elapsed, lastErr, seeding>>

\* Timer.HasNotElapsed.
HasNotElapsed ==
  /\ spc = "loop"
  /\ spc' = CASE ~elapsed        -> "token"
              [] lastErr # ""   -> "failed"
              [] OTHER          -> "done"
  /\ provider' = IF spc' = "done" THEN "nil" ELSE provider
  /\ UNCHANGED <<disk, settings, elapsed, lastErr, seeding>>

\* The duration of the timer is over, which the loop notices when it looks; the
\* multiplication by time.Second may overflow, and it is over at once.
TimerElapses ==
  /\ ~elapsed /\ spc \in {"starting", "loop", "token", "client", "regen"}
  /\ elapsed' = TRUE
  /\ UNCHANGED <<spc, disk, settings, lastErr, seeding, provider>>

\* getSecretConfig loads the token from the token file.
GetSecretConfig ==
  /\ Goto("token", IF tokenFile = "none" THEN "loop" ELSE "client")
  /\ lastErr' = IF tokenFile = "none" THEN "token" ELSE ""
  /\ UNCHANGED <<disk, settings, elapsed, seeding, provider>>

\* NewSecretsClient sets up the connection and looks the token up; the store
\* may be out of reach, and refuses an expired token.
NewSecretsClient ==
  /\ \/ /\ tokenFile # "none"   \* still a token, good or not
        /\ Goto("client", "loop") /\ lastErr' = "unreachable" /\ UNCHANGED provider
     \/ /\ tokenFile = "expired"
        /\ Goto("client", "regen") /\ lastErr' = "403" /\ UNCHANGED provider
     \/ /\ tokenFile = "good"
        /\ \/ Goto("client", "read")
           \/ secretsFile = NoFile /\ Goto("client", "done")
        /\ lastErr' = "" /\ provider' = "secure"
  /\ UNCHANGED <<disk, settings, elapsed, seeding>>

\* The setup service is asked, with the entity ID of the token file, to write a
\* new token there.  Whatever fails on the way ends the start at once.  The err
\* of this branch is one of its own: the 403 stays what the loop has to show.
RegenToken ==
  /\ \/ Goto("regen", "loop") /\ tokenFile' = "good"
     \/ Goto("regen", "failed") /\ UNCHANGED tokenFile
  /\ UNCHANGED <<secretsFile, store, spoiled, settings, elapsed, lastErr, seeding, provider>>

-----------------------------------------------------------------------------
(* LoadServiceSecrets *)

\* A file that cannot be read is left alone.
ReadFails ==
  /\ Goto("read", "failed")
  /\ UNCHANGED <<disk, settings, elapsed, lastErr, seeding, provider>>

ReadSecretsFile ==
  /\ Goto("read", IF Valid(secretsFile) THEN "seed" ELSE "overwrite")
  /\ contents' = secretsFile
  /\ unseen' = IF Valid(secretsFile) THEN Secrets ELSE {}
  /\ seedErr' = ~Valid(secretsFile)
  /\ UNCHANGED <<disk, settings, elapsed, lastErr, provider>>

\* Faulty variant: imported secrets are stored again.
SeedAgain(s) ==
  /\ spc = "seed" /\ s \in unseen
  /\ unseen' = unseen \ {s}
  /\ store' = [store EXCEPT ![s] = 1]
  /\ contents' = [contents EXCEPT ![s] = "imported"]
  /\ UNCHANGED <<spc, tokenFile, secretsFile, spoiled, settings, elapsed, lastErr, seedErr, provider>>

\* Faulty variant: a secret is marked as imported though the store refused it.
SeedUnchecked(s) ==
  /\ spc = "seed" /\ s \in unseen
  /\ unseen' = unseen \ {s}
  /\ contents' = [contents EXCEPT ![s] = "imported"]
  /\ \/ store' = [store EXCEPT ![s] = IF contents[s] = "given" THEN 1 ELSE @] /\ UNCHANGED seedErr
     \/ contents[s] = "given" /\ seedErr' = TRUE /\ UNCHANGED store
  /\ UNCHANGED <<spc, tokenFile, secretsFile, spoiled, settings, elapsed, lastErr, provider>>

\* Faulty variant: the errors of the seeding are only logged.
SeedWithoutError(s) ==
  /\ spc = "seed" /\ s \in unseen
  /\ unseen' = unseen \ {s}
  /\ \/ /\ store' = [store EXCEPT ![s] = IF contents[s] = "given" THEN 1 ELSE @]
        /\ contents' = [contents EXCEPT ![s] = "imported"]
     \/ UNCHANGED <<store, contents>>
  /\ UNCHANGED <<spc, tokenFile, secretsFile, spoiled, settings, elapsed, lastErr, seedErr, provider>>

\* One round of the loop of seedSecrets: a secret that is imported is skipped,
\* one the store does not take is left for the next start, and so is one it has
\* taken if its reply is lost.
SeedSecret(s) ==
  /\ spc = "seed" /\ s \in unseen
  /\ unseen' = unseen \ {s}
  /\ \/ contents[s] = "imported" /\ UNCHANGED <<store, contents, seedErr>>
     \/ /\ contents[s] = "given"
        /\ store' = [store EXCEPT ![s] = 1]
        /\ contents' = [contents EXCEPT ![s] = "imported"]
        /\ UNCHANGED seedErr
     \/ /\ contents[s] = "given"
        /\ store' \in {store, [store EXCEPT ![s] = 1]}
        /\ seedErr' = TRUE /\ UNCHANGED contents
  /\ UNCHANGED <<spc, tokenFile, secretsFile, spoiled, settings, elapsed, lastErr, provider>>

EndSeed ==
  /\ unseen = {}
  /\ Goto("seed", "overwrite")
  /\ UNCHANGED <<disk, settings, elapsed, lastErr, seeding, provider>>

\* os.WriteFile truncates the file before it writes, and may fail before that.
Truncate ==
  /\ spc = "overwrite"
  /\ \/ ~scrub /\ spc' = (IF seedErr THEN "failed" ELSE "done") /\ UNCHANGED secretsFile
     \/ scrub /\ spc' = "failed" /\ UNCHANGED secretsFile
     \/ scrub /\ spc' = "writing" /\ secretsFile' = Torn
  /\ UNCHANGED <<tokenFile, store, spoiled, settings, elapsed, lastErr, seeding, provider>>

\* The new contents are nil if the old ones were not valid.
WriteSecretsFile ==
  /\ Goto("writing", IF seedErr THEN "failed" ELSE "done")
  /\ secretsFile' = IF Valid(contents) THEN contents ELSE Torn
  /\ spoiled' = (spoiled \/ ~Valid(contents))
  /\ UNCHANGED <<tokenFile, store, settings, elapsed, lastErr, seeding, provider>>

\* It fails half way, for lack of space say: the start fails, with nothing to
\* bring the old contents back.
WriteFails ==
  /\ Goto("writing", "failed")
  /\ spoiled' = TRUE
  /\ UNCHANGED <<tokenFile, secretsFile, store, settings, elapsed, lastErr, seeding, provider>>

-----------------------------------------------------------------------------
(* What happens around it *)

SecretStep ==
  \/ NewSecretProvider \/ HasNotElapsed \/ GetSecretConfig \/ NewSecretsClient \/ RegenToken
  \/ ReadFails \/ ReadSecretsFile \/ EndSeed \/ Truncate \/ WriteSecretsFile \/ WriteFails
  \/ \E s \in Secrets : SeedSecret(s)

\* The memory of the process is gone.
ForgetSecrets ==
  /\ spc' = "idle" /\ provider' = "none" /\ lastErr' = "" /\ elapsed' = FALSE
  /\ contents' = NoFile /\ unseen' = {} /\ seedErr' = FALSE
  /\ spoiled' = (spoiled \/ spc = "writing")
  /\ UNCHANGED <<tokenFile, secretsFile, store, settings>>

\* The running service stores a new version of a secret.
UpdateSecret(s) ==
  /\ spc = "done" /\ provider = "secure" /\ store[s] \in 1 .. MaxUpdates
  /\ store' = [store EXCEPT ![s] = @ + 1]
  /\ UNCHANGED <<spc, tokenFile, secretsFile, spoiled, settings, elapsed, lastErr, seeding, provider>>

\* The store revokes or forgets the token the token file has.
ExpireToken ==
  /\ tokenFile = "good"
  /\ tokenFile' = "expired"
  /\ UNCHANGED <<spc, secretsFile, store, spoiled, settings, elapsed, lastErr, seeding, provider>>

-----------------------------------------------------------------------------
(* Properties *)

\* A secret of the file is in the file or in the store, however often the start
\* fails, is interrupted and repeated, unless the file was spoiled: os.WriteFile
\* failed, or the process died, after it had truncated the file, or the file had
\* an entry that is not valid, for which LoadServiceSecrets empties it.
SecretKept ==
  ~spoiled => \A s \in Secrets :
                \/ store[s] > 0
                \/ secretsFile[s] \notin {"imported", "torn"}
                \/ spc = "writing" /\ contents[s] # "imported"

\* The service goes on only without security, or with a provider and every secret of
\* the file stored, now or by an earlier start, or if the timer had elapsed
\* before the first attempt, in which case it has no provider at all.
SeededBeforeUse ==
  spc = "done" =>
    \/ provider = "insecure"
    \/ provider = "secure" /\ \A s \in Secrets : store[s] > 0
    \/ provider = "nil" /\ elapsed /\ lastErr = ""

\* Updates of the running service survive its restarts, unless scrubbing is
\* disabled: the file does not bring an older version back.
UpdatesSurvive ==
  [][scrub => \A s \in Secrets : store'[s] >= store[s]]_secretVars

=============================================================================
