---------------------------- MODULE SecureStore ----------------------------
(***************************************************************************)
(* The entry of one account in the credential store of the operating       *)
(* system (auth/secureStore.ts), as its callers see it.                    *)
(*                                                                         *)
(* Every call runs a program of the platform.  There may be none: on a     *)
(* platform without a facility, and on Linux as long as secret-tool is not *)
(* installed, which each call finds out anew.  A write that is not done    *)
(* throws; a read or a deletion that is not done looks like an empty store *)
(* and like a success.                                                     *)
(***************************************************************************)
EXTENDS Naturals

CONSTANTS
    NoKey,      \* no entry
    MaxFaults   \* bound on programs that fail, and on failed writes of files

VARIABLES
    tool,       \* the platform has a program for the store
    vault,      \* the entry
    faults      \* failures so far

Fault == faults < MaxFaults /\ faults' = faults + 1

(* load *)
Load(readable) == IF tool /\ readable THEN vault ELSE NoKey

(* save *)
Save(key) == tool /\ vault' = key /\ UNCHANGED faults

(* save throws SecureKeyStoreUnavailableError. *)
SaveThrows == UNCHANGED vault /\ IF tool THEN Fault ELSE UNCHANGED faults

(* clear; done says whether the entry is gone. *)
Clear(done) ==
    IF done THEN vault' = NoKey /\ (tool \/ vault = NoKey) /\ UNCHANGED faults
    ELSE vault # NoKey /\ UNCHANGED vault /\ IF tool THEN Fault ELSE UNCHANGED faults
=============================================================================
