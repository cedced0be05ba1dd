--------------------------- MODULE CacheContract ---------------------------
(***************************************************************************)
(* What the cache of upstream answers promises to the calls of the client. *)
(*                                                                         *)
(* At most one call fetches a key at a time; every answer to a key is one  *)
(* that was fetched for it; and the answers to a key never go back to an   *)
(* older one, except behind an answer the store could not take.            *)
(***************************************************************************)
EXTENDS Naturals

CONSTANTS Keys, Callers, None

VARIABLES
  fetched,   \* how often each key was fetched: the number of its newest answer
  floor,     \* the oldest answer a call for the key may still be given
  fetching,  \* the caller that fetches the key, if any
  answer     \* what each call was answered

vars == <<fetched, floor, fetching, answer>>

Init ==
  /\ fetched = [k \in Keys |-> 0]
  /\ floor = [k \in Keys |-> 0]
  /\ fetching = [k \in Keys |-> None]
  /\ answer = [c \in Callers |-> 0]

BeginFetch(k, c) ==
  /\ fetching[k] = None
  /\ fetching' = [fetching EXCEPT ![k] = c]
  /\ UNCHANGED <<fetched, floor, answer>>

EndFetch(k) ==
  /\ fetching[k] # None
  /\ fetching' = [fetching EXCEPT ![k] = None]
  /\ fetched' \in {fetched, [fetched EXCEPT ![k] = @ + 1]}
  /\ UNCHANGED <<floor, answer>>

Answer(c, k, n) ==
  /\ n \in floor[k] .. fetched[k]
  /\ answer' = [answer EXCEPT ![c] = n]
  /\ \/ floor' = [floor EXCEPT ![k] = n]
     \/ n = fetched[k] /\ UNCHANGED floor   \* an answer the store did not take
  /\ UNCHANGED <<fetched, fetching>>

Forget(c) ==
  /\ answer' = [answer EXCEPT ![c] = 0]
  /\ UNCHANGED <<fetched, floor, fetching>>

(* The process stops: its calls are gone, the answers it stored are not.   *)
Stop ==
  /\ fetching' = [k \in Keys |-> None]
  /\ answer' = [c \in Callers |-> 0]
  /\ UNCHANGED <<fetched, floor>>

Next ==
  \/ \E k \in Keys, c \in Callers : BeginFetch(k, c)
  \/ \E k \in Keys : EndFetch(k)
  \/ \E k \in Keys, c \in Callers : \E n \in 1 .. fetched[k] : Answer(c, k, n)
  \/ \E c \in Callers : Forget(c)
  \/ Stop

Spec == Init /\ [][Next]_vars
=============================================================================
