------------------------------ MODULE CondVar ------------------------------
(***************************************************************************)
(* std::condition_variable as the two threads of SEtelegram use it.        *)
(*                                                                         *)
(* A condition variable is the set of the threads blocked in its wait().   *)
(* wait(lock, pred) is one action of the waiting thread with two branches: *)
(* with the predicate true it goes on, with the predicate false it joins   *)
(* the set (and the mutex is free again).  A thread in the set takes no    *)
(* step; notify_one removes one member, chosen by the library, and does    *)
(* nothing when the set is empty.  A spurious wakeup would only evaluate   *)
(* the predicate again and is left out.                                    *)
(***************************************************************************)

\* The wait sets that notify_one may leave behind.
AfterNotifyOne(waiting) ==
    IF waiting = {} THEN {{}} ELSE {waiting \ {t} : t \in waiting}
=============================================================================
