---------------------------- MODULE QueueOverCAS ----------------------------
(***************************************************************************)
(* The queue of OPA_Queue in a port that has no swap (gcc's intrinsics     *)
(* without SYNC_LOCK_TEST_AND_SET_IS_SWAP): OPA_Queue_enqueue swaps tail   *)
(* by OPA_swap_ptr_by_cas of src/src/primitives/opa_emulated.h, a plain    *)
(* load and a loop of compare-and-swaps.  Between two of its steps other   *)
(* enqueues, and the consumer's own compare-and-swap, move tail, perhaps   *)
(* away from what the loop has read and back to it.                        *)
(***************************************************************************)
EXTENDS OPA_Queue

VARIABLE cmp          \* what each producer's loop has last read

casVars == <<vars, cmp>>

CasInit == Init /\ cmp = [p \in Producers |-> Null]

(* prev = OPA_load_ptr(ptr); cmp = prev;                                   *)
SwapLoad(p) ==
    /\ ppc[p] = "swap"
    /\ cmp' = [cmp EXCEPT ![p] = tail]
    /\ ppc' = [ppc EXCEPT ![p] = "swap_cas"]
    /\ UNCHANGED <<head, tail, next, pool, q, r_elt, r_prev, consumerVars>>

SwapCasSucceed(p) ==
    /\ ppc[p] = "swap_cas"
    /\ tail = cmp[p]
    /\ tail' = r_elt[p]
    /\ r_prev' = [r_prev EXCEPT ![p] = cmp[p]]
    /\ q' = Append(q, r_elt[p])
    /\ cmp' = [cmp EXCEPT ![p] = Null]
    /\ ppc' = [ppc EXCEPT ![p] = "link"]
    /\ UNCHANGED <<head, next, pool, r_elt, consumerVars>>

(* Mutant: the loop is left although tail has moved.                       *)
SwapCasLeave(p) ==
    /\ ppc[p] = "swap_cas"
    /\ tail # cmp[p]
    /\ r_prev' = [r_prev EXCEPT ![p] = tail]
    /\ cmp' = [cmp EXCEPT ![p] = Null]
    /\ ppc' = [ppc EXCEPT ![p] = "link"]
    /\ UNCHANGED <<head, tail, next, pool, q, r_elt, consumerVars>>

(* Mutant: the next round compares with the same value again.              *)
SwapCasKeepComparand(p) ==
    /\ ppc[p] = "swap_cas"
    /\ tail # cmp[p]
    /\ UNCHANGED casVars

(* Round the loop again, with the tail that the compare-and-swap returned. *)
SwapCasRetry(p) ==
    /\ ppc[p] = "swap_cas"
    /\ tail # cmp[p]
    /\ cmp' = [cmp EXCEPT ![p] = tail]
    /\ UNCHANGED vars

SwapStep(p) == SwapLoad(p) \/ SwapCasSucceed(p) \/ SwapCasRetry(p)

LinkStep(p) == (EnqueueSetHead(p) \/ EnqueueSetNext(p)) /\ UNCHANGED cmp

CasNext == \/ \E e \in Elements : HeaderInit(e) /\ UNCHANGED cmp
           \/ \E p \in Producers, e \in Elements : EnqueueCall(p, e) /\ UNCHANGED cmp
           \/ \E p \in Producers : SwapStep(p) \/ LinkStep(p)
           \/ Consumer /\ UNCHANGED cmp

CasSpec == CasInit /\ [][CasNext]_casVars

(* A producer in an enqueue goes on running; the consumer may stop.        *)
CasFairSpec == CasSpec /\ \A p \in Producers : WF_casVars(SwapStep(p) \/ LinkStep(p))

-----------------------------------------------------------------------------
(* With this mapping the loop is the swap of OPA_Queue, and takes effect   *)
(* at the compare-and-swap that succeeds.                                  *)
swapping == [p \in Producers |-> IF ppc[p] = "swap_cas" THEN "swap" ELSE ppc[p]]

Swap == INSTANCE OPA_Queue
          WITH Producers <- Producers, Elements <- Elements, Null <- Null,
               head <- head, tail <- tail, shadow_head <- shadow_head, next <- next,
               pool <- pool, ppc <- swapping, r_elt <- r_elt, r_prev <- r_prev,
               cpc <- cpc, r_e <- r_e, reply <- reply, q <- q

(* The queue does what it does over a swap instruction: no enqueue is lost *)
(* or linked to the wrong predecessor because tail has moved between the   *)
(* load and the compare-and-swap, an element dequeued and enqueued again   *)
(* in between included.                                                    *)
ImplementsQueue == Swap!Spec

(* The loop is lock-free: its compare-and-swap fails only because tail has *)
(* moved, which in the end takes another enqueue, even if the consumer     *)
(* moves it too.                                                           *)
SomeEnqueueSwaps ==
    (\E p \in Producers : ppc[p] = "swap_cas") ~> (\E p \in Producers : ppc[p] = "link")
=============================================================================
