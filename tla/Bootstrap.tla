------------------------------ MODULE Bootstrap ------------------------------
(***************************************************************************)
(* The shell script of renderBootstrapScript (src/accounts.js): it puts    *)
(* the authorized_keys of the tunnel's account and the include of sshd in  *)
(* place and reloads sshd.  Until it has committed, its trap undoes what   *)
(* it has done.                                                            *)
(*                                                                         *)
(* An action is one command, and an assignment is one too: a signal runs   *)
(* the trap between two commands, and the status of a command that fails   *)
(* does so at once.  Within the trap both end the script.                  *)
(*                                                                         *)
(* Simplifications.  A copy made beside its target and the mv that puts it *)
(* there are one step.  The accounts and directories made before the trap  *)
(* is set are left out, they are not undone.  One script runs at a time.   *)
(***************************************************************************)
EXTENDS Naturals

CONSTANTS Content,   \* of the two files, before the first run
          Valid,     \* the includes that sshd -t accepts
          MaxRuns

File == Content \cup {"new", "absent", "link"}

VARIABLES
    keys, include,   \* the two files
    loaded,          \* the include that sshd has read last
    stage,           \* the copies in the directory of the run
    flag,            \* committed, had_previous and so on
    at,              \* the next command, or how the script has ended
    before,          \* the two files when the run began
    status,          \* what the trap will exit with
    runs

vars == <<keys, include, loaded, stage, flag, at, before, status, runs>>
files == <<keys, include, loaded>>
run == <<before, status, runs>>

NoStage == [keys |-> "absent", include |-> "absent"]
NoFlag == [had_keys |-> FALSE, changed |-> FALSE, had_include |-> FALSE, committed |-> FALSE]
Ended == {"idle", "ok", "failed", "refused", "killed"}
InTrap == {"undo", "retest", "reread", "rekey", "clear"}

Begin ==
    /\ at \in Ended /\ runs < MaxRuns
    /\ before' = [keys |-> keys, include |-> include]
    /\ stage' = NoStage /\ flag' = NoFlag
    /\ status' = "ok"
    /\ at' = "keys"
    /\ runs' = runs + 1
    /\ UNCHANGED files

\* The trap on EXIT.
Exit(how) ==
    /\ status' = how
    /\ at' = IF flag.committed THEN "clear" ELSE "undo"
    /\ UNCHANGED <<files, stage, flag, before, runs>>

\* A file that is a link is refused, and one that is there is saved.
Look(here, file, save, move) ==
    /\ at = here
    /\ \/ /\ file = "link" /\ Exit("refused")
       \/ /\ file # "link"
          /\ at' = IF file = "absent" THEN move ELSE save
          /\ UNCHANGED <<files, stage, flag, run>>

Save(here, which, file, next) ==
    /\ at = here
    /\ stage' = [stage EXCEPT ![which] = file]
    /\ at' = next
    /\ UNCHANGED <<files, flag, run>>

Set(here, name, next) ==
    /\ at = here
    /\ flag' = [flag EXCEPT ![name] = TRUE]
    /\ at' = next
    /\ UNCHANGED <<files, stage, run>>

MoveKeys ==
    /\ at = "move_keys"
    /\ keys' = "new"
    /\ at' = "keys_moved"
    /\ UNCHANGED <<include, loaded, stage, flag, run>>

MoveInclude ==
    /\ at = "move_include"
    /\ include' = "new"
    /\ at' = "test"
    /\ UNCHANGED <<keys, loaded, stage, flag, run>>

Test ==
    /\ at = "test" /\ include \in Valid
    /\ at' = "reload"
    /\ UNCHANGED <<files, stage, flag, run>>

Reload ==
    /\ at = "reload"
    /\ loaded' = include
    /\ at' = "commit"
    /\ UNCHANGED <<keys, include, stage, flag, run>>

\* The last command reports success.
Announce ==
    /\ at = "echo"
    /\ Exit("ok")

\* A command fails, under set -e, or a signal arrives before it.
Interrupt ==
    /\ at \notin Ended \cup InTrap
    /\ Exit("failed")

\* The trap's own commands: the include is restored or, if no copy has been
\* made, removed; ...
Undo ==
    /\ at = "undo"
    /\ include' = IF flag.had_include THEN stage.include ELSE "absent"
    /\ at' = "retest"
    /\ UNCHANGED <<keys, loaded, stage, flag, run>>

\* ... sshd reads it if its test accepts it, ...
Retest ==
    /\ at = "retest"
    /\ at' = IF include \in Valid THEN "reread" ELSE "rekey"
    /\ UNCHANGED <<files, stage, flag, run>>

\* ... where a reload that fails does no harm, ...
Reread ==
    /\ at = "reread"
    /\ loaded' \in {loaded, include}
    /\ at' = "rekey"
    /\ UNCHANGED <<keys, include, stage, flag, run>>

\* ... and the keys go back if they are known to have been changed.
Rekey ==
    /\ at = "rekey"
    /\ keys' = IF ~flag.changed THEN keys ELSE IF flag.had_keys THEN stage.keys ELSE "absent"
    /\ at' = "clear"
    /\ UNCHANGED <<include, loaded, stage, flag, run>>

Clear ==
    /\ at = "clear"
    /\ stage' = NoStage
    /\ at' = status
    /\ UNCHANGED <<files, flag, run>>

\* Another signal, or a command of the trap that fails, ends it.
Kill ==
    /\ at \notin Ended
    /\ at' = "killed"
    /\ UNCHANGED <<files, stage, flag, run>>

Init ==
    /\ keys \in Content \cup {"absent", "link"} /\ include \in Content \cup {"absent", "link"}
    /\ loaded = include
    /\ stage = NoStage /\ flag = NoFlag
    /\ at = "idle" /\ status = "ok"
    /\ before = [keys |-> keys, include |-> include]
    /\ runs = 0

Next ==
    \/ Begin
    \/ Look("keys", keys, "save_keys", "move_keys") \/ Save("save_keys", "keys", keys, "had_keys")
    \/ Set("had_keys", "had_keys", "move_keys") \/ MoveKeys
    \/ Set("keys_moved", "changed", "include")
    \/ Look("include", include, "save_include", "move_include")
    \/ Save("save_include", "include", include, "had_include")
    \/ Set("had_include", "had_include", "move_include") \/ MoveInclude
    \/ Test \/ Reload
    \/ Set("commit", "committed", "echo") \/ Announce
    \/ Interrupt \/ Undo \/ Retest \/ Reread \/ Rekey \/ Clear \/ Kill

Spec == Init /\ [][Next]_vars

(***************************************************************************)
(* Properties                                                              *)
(***************************************************************************)
\* A run that refuses a file because it is a symbolic link leaves both files as
\* they were.
RefusedStays ==
    at = "refused" => keys = before.keys /\ include = before.include

\* A run that ends well has both files in place, and sshd has read them.
SuccessIsLoaded ==
    at = "ok" => keys = "new" /\ include = "new" /\ loaded = "new"

\* sshd reads no include that its test has not accepted.
LoadedIsTested == [][loaded' # loaded => loaded' \in Valid]_vars

\* A run that fails before it has committed, unless it is killed, puts back what
\* it has saved, and the keys if it knows that it has moved them.
SavedIsRestored ==
    at \in {"failed", "refused"} /\ ~flag.committed =>
        /\ flag.had_include => include = before.include
        /\ flag.changed => keys = before.keys
=============================================================================
