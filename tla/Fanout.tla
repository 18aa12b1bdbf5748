------------------------------- MODULE Fanout -------------------------------
(***************************************************************************)
(* What the SFU promises of forwarding, without Consumers, Producers, SSRCs, *)
(* locks or pointers: a packet of a stream goes to everybody who is          *)
(* subscribed to it and ready for it, or, when it does not belong to the     *)
(* stream that subscribers were given, to nobody; and to no one else.        *)
(* A subscription is a triple of subscriber, publisher and kind.             *)
(***************************************************************************)
CONSTANTS Peers, Kinds

VARIABLES
    subs,       \* the subscriptions
    ready,      \* those for which the subscriber has named a mid
    sending,    \* the streams that have begun, as pairs of publisher and kind
    due         \* the subscriptions the packet in hand has yet to be sent on

vars == <<subs, ready, sending, due>>

Subscriptions == Peers \X Peers \X Kinds
ReadyFor(p, k) == {t \in ready : t[2] = p /\ t[3] = k}

Init == subs = {} /\ ready = {} /\ sending = {} /\ due = {}

Subscribe(t) ==
    /\ subs' = subs \cup {t}
    /\ UNCHANGED <<ready, sending, due>>

(* A subscriber that becomes ready while a packet is in hand may get it. *)
Negotiate(t) ==
    /\ t \in subs
    /\ ready' = ready \cup {t}
    /\ due' \in {due, due \cup {t}}
    /\ UNCHANGED <<subs, sending>>

(* The first packet of a kind goes to all who are ready, every later one too *)
(* unless its SSRC is another.                                               *)
Packet(p, k) ==
    /\ due = {}
    /\ sending' = sending \cup {<<p, k>>}
    /\ \/ due' = ReadyFor(p, k)
       \/ <<p, k>> \in sending /\ due' = {}
    /\ UNCHANGED <<subs, ready>>

(* The packet is sent on, or dropped for want of SRTP keys. *)
Deliver(t) ==
    /\ t \in due
    /\ due' = due \ {t}
    /\ UNCHANGED <<subs, ready, sending>>

(* Who leaves subscribes to nothing, and nobody is subscribed any longer to  *)
(* a stream of theirs that had begun.                                        *)
Leave(p) ==
    /\ subs' = {t \in subs : t[1] # p /\ ~(t[2] = p /\ <<p, t[3]>> \in sending)}
    /\ ready' = ready \cap subs'
    /\ sending' = {s \in sending : s[1] # p}
    /\ due' = due \cap subs'

Next == \/ \E t \in Subscriptions : Subscribe(t) \/ Negotiate(t) \/ Deliver(t)
        \/ \E p \in Peers : Leave(p) \/ \E k \in Kinds : Packet(p, k)

Spec == Init /\ [][Next]_vars
=============================================================================
