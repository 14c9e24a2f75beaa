------------------------------- MODULE Mirror -------------------------------
(***************************************************************************)
(* What the polling protocol promises, without requests, replies or        *)
(* sequence numbers: the panel keeps, for every key of the object model, a *)
(* copy of the host's data that is never newer than the host's, never goes *)
(* back to older data, and catches up.                                     *)
(*                                                                         *)
(* A version is <<boot, seq>>: what the host had after so many restarts    *)
(* and, since then, so many changes of the key.  <<>> is no copy at all.   *)
(***************************************************************************)
EXTENDS Naturals, Sequences

CONSTANT Keys

VARIABLES
    truth,      \* the host's version of every key
    copy        \* the version the panel's copy stands for

vars == <<truth, copy>>

NoCopy == <<>>

\* Version v is the same as w or older.
AtMost(v, w) ==
    \/ v = NoCopy
    \/ /\ v # NoCopy
       /\ w # NoCopy
       /\ v[1] < w[1] \/ (v[1] = w[1] /\ v[2] <= w[2])

Init ==
    /\ truth = [k \in Keys |-> <<0, 0>>]
    /\ copy = [k \in Keys |-> NoCopy]

\* The host changes the data under some keys, or restarts.
HostMoves ==
    /\ \A k \in Keys : AtMost(truth[k], truth'[k])
    /\ truth' # truth
    /\ UNCHANGED copy

\* The panel takes over a version of k that the host has had.
Refresh(k) ==
    /\ copy'[k] # NoCopy
    /\ AtMost(copy[k], copy'[k])
    /\ AtMost(copy'[k], truth[k])
    /\ copy' = [copy EXCEPT ![k] = copy'[k]]
    /\ UNCHANGED truth

\* The panel takes over the current version of k.
CatchUp(k) ==
    /\ copy[k] # truth[k]
    /\ copy' = [copy EXCEPT ![k] = truth[k]]
    /\ UNCHANGED truth

Next == HostMoves \/ \E k \in Keys : Refresh(k)

(* It only moves forward, to versions that the host has had.               *)
Forward == Init /\ [][Next]_vars

Spec ==
    /\ Forward
    /\ \A k \in Keys : WF_vars(CatchUp(k))
=============================================================================
