---------------------------- MODULE ClientLifecycle ----------------------------
(***************************************************************************)
(* What a client promises about its life, without mutexes, queues and      *)
(* sockets: the state that the application sees, and whether the threads   *)
(* of a Connection exist.                                                  *)
(*                                                                         *)
(* The threads of one Connection are gone before those of the next one     *)
(* start, threads alone report that a connection came up or was lost, they *)
(* do so only to a client that wants one, and DISCONNECTED is left by      *)
(* connect() and by nothing else, when no thread of an earlier life is     *)
(* left.                                                                   *)
(***************************************************************************)

VARIABLES
  state,    (* Client::Impl::m_state                         *)
  running   (* the threads of a Connection exist             *)

vars == <<state, running>>

Init == state = "DISCONNECTED" /\ running = FALSE

Connect ==
  /\ state = "DISCONNECTED" /\ ~running
  /\ state' = "CONNECTING"
  /\ UNCHANGED running

Start ==
  /\ state # "DISCONNECTED" /\ ~running
  /\ running' = TRUE
  /\ UNCHANGED state

(* The threads report a connection that came up, or that was lost. *)
Report ==
  /\ state # "DISCONNECTED" /\ running
  /\ state' \in {"CONNECTING", "CONNECTED"}
  /\ UNCHANGED running

Disconnect ==
  /\ state # "DISCONNECTED"
  /\ state' = "DISCONNECTED"
  /\ UNCHANGED running

(* The threads end for disconnect(), or to make way for a new Connection   *)
(* of a client that stays CONNECTED.                                       *)
Join ==
  /\ state \in {"DISCONNECTED", "CONNECTED"} /\ running
  /\ running' = FALSE
  /\ UNCHANGED state

Next == Connect \/ Start \/ Report \/ Disconnect \/ Join

Spec == Init /\ [][Next]_vars

=============================================================================
