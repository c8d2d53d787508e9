---------------------------- MODULE SocksService ----------------------------
(***************************************************************************)
(* What the SOCKS server promises, whatever tasks, tunnels and resolvers   *)
(* it takes: a request is routed once, by the switch as it is then, is     *)
(* answered once, success only with an upstream connection at hand and     *)
(* failure only without one, and no connection is kept after the end, with *)
(* one exception: a tunnelled connection that was made for a client who    *)
(* left before it was told.                                                *)
(***************************************************************************)
CONSTANTS
  Client,    \* local clients
  Host,      \* the targets they ask for
  Loopback,  \* those that are never tunnelled
  NoHost     \* the target of a request that is not understood

VARIABLES
  enabled,   \* WARP is on
  stage,     \* how far the client's request is
  target,    \* what it asked for
  via,       \* how it is routed
  link,      \* an upstream connection is kept for it
  stray      \* clients for which a connection is kept after the end

vars == <<enabled, stage, target, via, link, stray>>

Init ==
  /\ enabled \in BOOLEAN
  /\ stage = [c \in Client |-> "none"]
  /\ target = [c \in Client |-> NoHost]
  /\ via = [c \in Client |-> "none"]
  /\ link = [c \in Client |-> FALSE]
  /\ stray = {}

Ask(c, h) ==
  /\ stage[c] = "none"
  /\ stage' = [stage EXCEPT ![c] = "asked"] /\ target' = [target EXCEPT ![c] = h]
  /\ UNCHANGED <<enabled, via, link, stray>>

\* Straight out: WARP is off, or the target is this machine.
GoDirect(c) ==
  /\ stage[c] = "asked" /\ target[c] \in Host
  /\ ~enabled \/ target[c] \in Loopback
  /\ stage' = [stage EXCEPT ![c] = "routed"] /\ via' = [via EXCEPT ![c] = "direct"]
  /\ UNCHANGED <<enabled, target, link, stray>>

GoWarp(c) ==
  /\ stage[c] = "asked" /\ target[c] \in Host \ Loopback
  /\ enabled
  /\ stage' = [stage EXCEPT ![c] = "routed"] /\ via' = [via EXCEPT ![c] = "warp"]
  /\ UNCHANGED <<enabled, target, link, stray>>

Link(c) ==
  /\ stage[c] = "routed" /\ ~link[c]
  /\ link' = [link EXCEPT ![c] = TRUE]
  /\ UNCHANGED <<enabled, stage, target, via, stray>>

Succeed(c) ==
  /\ stage[c] = "routed" /\ link[c]
  /\ stage' = [stage EXCEPT ![c] = "open"]
  /\ UNCHANGED <<enabled, target, via, link, stray>>

Refuse(c) ==
  /\ \/ stage[c] = "asked" /\ target[c] = NoHost
     \/ stage[c] = "routed"
  /\ ~link[c]
  /\ stage' = [stage EXCEPT ![c] = "refused"]
  /\ UNCHANGED <<enabled, target, via, link, stray>>

\* These requests are over, for whatever reason.
Over(C) ==
  /\ stage' = [c \in Client |-> IF c \in C THEN "none" ELSE stage[c]]
  /\ target' = [c \in Client |-> IF c \in C THEN NoHost ELSE target[c]]
  /\ via' = [c \in Client |-> IF c \in C THEN "none" ELSE via[c]]
  /\ link' = [c \in Client |-> IF c \in C THEN FALSE ELSE link[c]]
  /\ UNCHANGED enabled

\* A client's connection ends.
End(c) == Over({c}) /\ UNCHANGED stray

\* It ends before the answer, and what was made over WARP stays, ...
Strand(c) ==
  /\ stage[c] = "routed" /\ via[c] = "warp" /\ link[c]
  /\ Over({c}) /\ stray' = stray \cup {c}

\* ... until the other side ends it.
StrayGone(c) ==
  /\ stray' = stray \ {c}
  /\ UNCHANGED <<enabled, stage, target, via, link>>

\* The server is gone, and everything with it.
Halt == Over(Client) /\ stray' = {}

Switch(on) ==
  /\ enabled' = on
  /\ UNCHANGED <<stage, target, via, link, stray>>

Next ==
  \/ \E c \in Client : \/ \E h \in Host \cup {NoHost} : Ask(c, h)
                       \/ GoDirect(c) \/ GoWarp(c) \/ Link(c)
                       \/ Succeed(c) \/ Refuse(c)
                       \/ End(c) \/ Strand(c) \/ StrayGone(c)
  \/ Halt
  \/ \E on \in BOOLEAN : Switch(on)

Spec == Init /\ [][Next]_vars
=============================================================================
