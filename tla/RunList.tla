------------------------------ MODULE RunList ------------------------------
(***************************************************************************)
(* What a multi-run file promises: a list of runs, of which one may be     *)
(* growing, between begin_run and end_run.  A file that was written by     *)
(* `append` holds no runs until create_entries cuts it.  A run that is not *)
(* the last one may fail to grow, and then the runs behind it are void.    *)
(***************************************************************************)
EXTENDS Integers, Sequences

CONSTANT Payloads   \* the sequences of keys one call may write

VARIABLES
    raw,      \* what has been appended outside runs and is not cut yet
    runs,     \* runs[r + 1] is run r
    growing,  \* the number of runs up to the growing one, 0 if there is none
    failed

listVars == <<raw, runs, growing, failed>>

Init == raw = <<>> /\ runs = <<>> /\ growing = 0 /\ failed = FALSE

AppendRaw(keys) ==
    /\ runs = <<>>
    /\ raw' = raw \o keys
    /\ UNCHANGED <<runs, growing>>

Ascending(s) == \A p \in 1 .. Len(s) - 1 : s[p] <= s[p + 1]

(* The cut into the fewest sorted runs, at[r] keys in the first r of them: a run ends *)
(* only where the next key is smaller.                                                 *)
CutOf(cut, keys) ==
    \E at \in [0 .. Len(cut) -> 0 .. Len(keys)] :
        /\ at[0] = 0 /\ at[Len(cut)] = Len(keys)
        /\ \A r \in 1 .. Len(cut) :
              /\ at[r - 1] < at[r]
              /\ cut[r] = SubSeq(keys, at[r - 1] + 1, at[r])
              /\ Ascending(cut[r])
              /\ r < Len(cut) => keys[at[r]] > keys[at[r] + 1]

Cut ==
    /\ runs = <<>>
    /\ CutOf(runs', raw)
    /\ raw' = <<>>
    /\ UNCHANGED growing

Add(keys) ==
    /\ raw = <<>>
    /\ runs' = Append(runs, keys)
    /\ UNCHANGED <<raw, growing>>

Begin ==
    /\ raw = <<>>
    /\ runs' = Append(runs, <<>>)
    /\ growing' = Len(runs')
    /\ UNCHANGED raw

Grow(keys) ==
    /\ growing # 0
    /\ runs' = [runs EXCEPT ![growing] = @ \o keys]
    /\ UNCHANGED <<raw, growing>>

Stop ==
    /\ growing' = 0
    /\ UNCHANGED <<raw, runs>>

Succeed ==
    /\ \/ \E keys \in Payloads : AppendRaw(keys) \/ Add(keys) \/ Grow(keys)
       \/ Cut
       \/ Begin
       \/ Stop
    /\ UNCHANGED failed

Fail ==
    /\ growing # 0 /\ growing < Len(runs)
    /\ Len(runs') = Len(runs)
    /\ \A r \in 1 .. growing : runs'[r] = runs[r]
    /\ failed' = TRUE
    /\ UNCHANGED <<raw, growing>>

Next == ~failed /\ (Succeed \/ Fail)

Spec == Init /\ [][Next]_listVars
=============================================================================
