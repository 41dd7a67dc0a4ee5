---------------------------- MODULE TransferProofs ----------------------------
(***************************************************************************)
(* Proofs about Transfer, for any number of connections, any settings and   *)
(* any requests.  One invariant says of each connection by itself what its   *)
(* server, its wire and its client agree on; a second one counts the slots.  *)
(* Every step concerns one connection and moves at most one slot.            *)
(***************************************************************************)
EXTENDS Transfer, FiniteSetTheorems, TLAPS

TypedAt(c) ==
    /\ srv[c] \in Server /\ wire[c] \in Wire /\ cli[c] \in Client
    /\ ask[c] \in Ask \cup {NoAsk}

Past(c, phases) == srv[c].phase \in phases \cup {"stream"}

(* what the server has found out before it says "ok" *)
Vetted(c) ==
    /\ TokenAdmits(c)
    /\ srv[c].settings.enabled
    /\ IsAllowedPath(ask[c].path, srv[c].settings.allowed)

ServerSound(c) ==
    /\ srv[c].guard => /\ srv[c].phase \in {"path", "stream", "return"}
                       /\ srv[c].settings.limit \in Nat
                       /\ srv[c].current <= srv[c].settings.limit
    /\ srv[c].phase \in {"acquire", "count"} => srv[c].settings.limit \in Nat
    /\ Past(c, {"request", "load", "gate", "acquire", "count", "path"}) => TokenAdmits(c)
    /\ Past(c, {"gate", "acquire", "count", "path"}) => srv[c].settings.enabled
    /\ srv[c].phase = "stream" => wire[c].status = "ok" /\ ~wire[c].fin

WireSound(c) ==
    /\ wire[c].status # "none" \/ wire[c].fin
           => srv[c].phase \in {"stream", "return", "drain", "gone"}
    /\ wire[c].status = "ok" => Vetted(c)

(* all that the server's stream will bring has been read *)
ReadOut(c) == wire[c].fin /\ cli[c].got = wire[c].sent

ClientSound(c) ==
    /\ cli[c].phase \in {"idle", "asked"} => srv[c].phase = "none"
    /\ cli[c].phase \in {"body", "read", "check", "done"} => wire[c].status = "ok"
    /\ cli[c].phase = "check" => cli[c].got = Size \/ ReadOut(c)
    /\ cli[c].phase = "done" => cli[c].got = Size \/ (ask[c].hash = "none" /\ ReadOut(c))

ConnSound(c) == ServerSound(c) /\ WireSound(c) /\ ClientSound(c)

Holders == {c \in Conn : Counted(c)}

(* those whose number was at most n when they acquired their slot *)
Early(n) == {c \in Conn : Counted(c) /\ srv[c].current <= n}

(* Of the slots held at one time at most n have a number of at most n: a     *)
(* number is the count at its acquisition, and the count only falls since.   *)
SlotsSound == SlotsAreHeld /\ \A n \in Nat : Cardinality(Early(n)) <= n

TransferInv ==
    /\ TransferTypeOK
    /\ \A c \in Conn : ConnSound(c)
    /\ SlotsSound

-----------------------------------------------------------------------------
(* The shape of a step that concerns the connection c.                      *)

Framed(c) ==
    /\ srv' = [srv EXCEPT ![c] = srv'[c]]
    /\ wire' = [wire EXCEPT ![c] = wire'[c]]
    /\ cli' = [cli EXCEPT ![c] = cli'[c]]
    /\ ask' = [ask EXCEPT ![c] = ask'[c]]

Rest ==
    /\ settings \in [Slug -> ShareSettings] /\ contacts \subseteq Npub
    /\ cancels \subseteq Conn /\ signalled \subseteq Conn
    /\ stalled \in 0..MaxConnections /\ changes \in 0..MaxChanges

Acquires(c) == ~Counted(c) /\ Counted(c)' /\ active' = active + 1 /\ srv'[c].current = active'
Releases(c) == Counted(c) /\ ~Counted(c)' /\ active' = active - 1
KeepsSlot(c) ==
    active' = active /\ Counted(c)' = Counted(c) /\ srv'[c].current = srv[c].current

Moves(c) == Framed(c) /\ TypedAt(c)' /\ ConnSound(c)' /\ Rest'
            /\ (Acquires(c) \/ Releases(c) \/ KeepsSlot(c))

-----------------------------------------------------------------------------
Known(c) ==
    /\ TypedAt(c) /\ ConnSound(c) /\ Rest /\ active \in Nat
    /\ srv \in [Conn -> Server] /\ wire \in [Conn -> Wire]
    /\ cli \in [Conn -> Client] /\ ask \in [Conn -> Ask \cup {NoAsk}]

LEMMA Facts ==
    ASSUME TransferInv, NEW c \in Conn
    PROVE  Known(c)
BY DEF TransferInv, TransferTypeOK, TypedAt, Rest, Known

(***************************************************************************)
(* The server's steps.                                                     *)
(***************************************************************************)
LEMMA AcceptMoves ==
    ASSUME TransferInv, NEW c \in Conn, Accept(c)
    PROVE  Moves(c)
<1>0. Known(c)
    BY Facts
<1>1. Framed(c)
    BY <1>0 DEF Known, Accept, ServerGoto, ServerOnly, client, Framed
<1>2. TypedAt(c)'
  <2>1. srv'[c] \in Server
      BY <1>0, TransferAssumption DEF Known, Accept, ServerGoto, ServerOnly, client,
         TypedAt, Server, ServerPhase
  <2>2. wire'[c] \in Wire
      BY <1>0, TransferAssumption DEF Known, Accept, ServerGoto, ServerOnly, client,
         TypedAt, Wire
  <2>3. cli'[c] \in Client /\ ask'[c] \in Ask \cup {NoAsk}
      BY <1>0, TransferAssumption DEF Known, Accept, ServerGoto, ServerOnly, client,
         TypedAt, Client, ClientPhase, Ended
  <2> QED
      BY <2>1, <2>2, <2>3 DEF TypedAt
<1>3. ConnSound(c)'
    BY <1>0, TransferAssumption DEF Known, Accept, ServerGoto, ServerOnly,
       client, TypedAt, Server, Wire, Client, ConnSound, ServerSound, WireSound,
       ClientSound, ReadOut, Past, Vetted, TokenAdmits
<1>4. Rest' /\ KeepsSlot(c)
    BY <1>0, TransferAssumption DEF Known, Accept, ServerGoto, ServerOnly,
       client, TypedAt, Server, Rest, KeepsSlot, Counted, ConnSound, ServerSound
<1> QED
    BY <1>1, <1>2, <1>3, <1>4 DEF Moves

LEMMA ReadTokenMoves ==
    ASSUME TransferInv, NEW c \in Conn, ReadToken(c)
    PROVE  Moves(c)
<1>0. Known(c)
    BY Facts
<1>1. Framed(c)
    BY <1>0 DEF Known, ReadToken, ServerGoto, ServerOnly, client, Refuse, Framed
<1>2. TypedAt(c)'
  <2>1. srv'[c] \in Server
      BY <1>0 DEF Known, ReadToken, ServerGoto, ServerOnly, client, Refuse,
         TypedAt, Server, ServerPhase
  <2>2. wire'[c] \in Wire
      BY <1>0 DEF Known, ReadToken, ServerGoto, ServerOnly, client, Refuse,
         TypedAt, Wire
  <2>3. cli'[c] \in Client /\ ask'[c] \in Ask \cup {NoAsk}
      BY <1>0 DEF Known, ReadToken, ServerGoto, ServerOnly, client, Refuse,
         TypedAt, Client, ClientPhase, Ended
  <2> QED
      BY <2>1, <2>2, <2>3 DEF TypedAt
<1>3. ConnSound(c)'
    BY <1>0, TransferAssumption DEF Known, ReadToken, ServerGoto, ServerOnly,
       client, Refuse, TypedAt, Server, Wire, Client, ConnSound, ServerSound,
       WireSound, ClientSound, ReadOut, Past, Vetted, TokenAdmits
<1>4. Rest' /\ KeepsSlot(c)
    BY <1>0, TransferAssumption, SMTT(60) DEF Known, ReadToken, ServerGoto, ServerOnly,
       client, Refuse, TypedAt, Server, Rest, KeepsSlot, Counted, ConnSound,
       ServerSound
<1> QED
    BY <1>1, <1>2, <1>3, <1>4 DEF Moves

LEMMA ReadRequestMoves ==
    ASSUME TransferInv, NEW c \in Conn, ReadRequest(c)
    PROVE  Moves(c)
<1>0. Known(c)
    BY Facts
<1>1. Framed(c)
    BY <1>0 DEF Known, ReadRequest, ServerGoto, ServerOnly, client, Refuse,
       EndSilently, Framed
<1>2. TypedAt(c)'
  <2>1. srv'[c] \in Server
      BY <1>0 DEF Known, ReadRequest, ServerGoto, ServerOnly, client, Refuse,
         EndSilently, TypedAt, Server, ServerPhase
  <2>2. wire'[c] \in Wire
    <3>1. \/ wire'[c] = wire[c]
          \/ wire'[c] = [wire[c] EXCEPT !.status = "error", !.fin = TRUE]
          \/ wire'[c] = [wire[c] EXCEPT !.fin = TRUE]
        BY <1>0 DEF Known, ReadRequest, Refuse, EndSilently
    <3>2. wire[c] \in Wire
        BY <1>0 DEF Known, TypedAt
    <3>3. CASE wire'[c] = [wire[c] EXCEPT !.status = "error", !.fin = TRUE]
        BY <3>2, <3>3 DEF Wire
    <3>4. CASE wire'[c] = [wire[c] EXCEPT !.fin = TRUE]
        BY <3>2, <3>4 DEF Wire
    <3> QED
        BY <3>1, <3>2, <3>3, <3>4
  <2>3. cli'[c] \in Client /\ ask'[c] \in Ask \cup {NoAsk}
      BY <1>0 DEF Known, ReadRequest, ServerGoto, ServerOnly, client, Refuse,
         EndSilently, TypedAt, Client, ClientPhase, Ended
  <2> QED
      BY <2>1, <2>2, <2>3 DEF TypedAt
<1>3. ConnSound(c)'
  <2>1. /\ ask' = ask /\ cli' = cli /\ srv[c].phase = "request"
        /\ \/ srv'[c] = [srv[c] EXCEPT !.phase = "load"] /\ wire'[c] = wire[c]
           \/ /\ srv'[c] = [srv[c] EXCEPT !.phase = "return"]
              /\ \/ wire'[c] = [wire[c] EXCEPT !.status = "error", !.fin = TRUE]
                 \/ wire'[c] = [wire[c] EXCEPT !.fin = TRUE]
      BY <1>0 DEF Known, ReadRequest, ServerGoto, ServerOnly, client, Refuse, EndSilently
  <2>2. /\ srv'[c].settings = srv[c].settings
        /\ srv'[c].guard = srv[c].guard /\ srv'[c].current = srv[c].current
        /\ srv'[c].phase \in {"load", "return"}
        /\ srv'[c].phase = "load" => wire'[c] = wire[c]
      BY <1>0, <2>1 DEF Known, TypedAt, Server
  <2>3. wire[c].status = "none" /\ ~wire[c].fin
      BY <1>0, <2>1, <2>2 DEF Known, ConnSound, WireSound
  <2>4. wire'[c].status \in {"none", "error"}
      BY <1>0, <2>1, <2>2, <2>3 DEF Known, TypedAt, Wire
  <2>5. srv'[c].phase = "load" => wire'[c].status = "none" /\ ~wire'[c].fin
      BY <2>1, <2>2, <2>3
  <2>6. ServerSound(c)'
      BY <1>0, <2>1, <2>2 DEF Known, ConnSound, ServerSound, Past, TokenAdmits
  <2>7. WireSound(c)'
      BY <2>1, <2>2, <2>4, <2>5 DEF WireSound
  <2>8. ClientSound(c)'
      BY <1>0, <2>1, <2>2, <2>3 DEF Known, ConnSound, ClientSound
  <2> QED
      BY <2>6, <2>7, <2>8 DEF ConnSound
<1>4. Rest' /\ KeepsSlot(c)
    BY <1>0, TransferAssumption DEF Known, ReadRequest, ServerGoto, ServerOnly,
       client, Refuse, EndSilently, TypedAt, Server, Rest, KeepsSlot, Counted,
       ConnSound, ServerSound
<1> QED
    BY <1>1, <1>2, <1>3, <1>4 DEF Moves

LEMMA LoadSettingsMoves ==
    ASSUME TransferInv, NEW c \in Conn, LoadSettings(c)
    PROVE  Moves(c)
<1>0. Known(c)
    BY Facts
<1>1. Framed(c)
    BY <1>0 DEF Known, LoadSettings, ServerGoto, ServerOnly, client, Refuse,
       Framed
<1>2. TypedAt(c)'
  <2>1. srv'[c] \in Server
      BY <1>0, TransferAssumption DEF Known, LoadSettings, ServerGoto, ServerOnly,
         client, Refuse, TypedAt, Server, ServerPhase
  <2>2. wire'[c] \in Wire
      BY <1>0, TransferAssumption DEF Known, LoadSettings, ServerGoto, ServerOnly,
         client, Refuse, TypedAt, Wire
  <2>3. cli'[c] \in Client /\ ask'[c] \in Ask \cup {NoAsk}
      BY <1>0, TransferAssumption DEF Known, LoadSettings, ServerGoto, ServerOnly,
         client, Refuse, TypedAt, Client, ClientPhase, Ended
  <2> QED
      BY <2>1, <2>2, <2>3 DEF TypedAt
<1>3. ConnSound(c)'
  <2>1. ServerSound(c)'
      BY <1>0 DEF Known, LoadSettings, ServerGoto, ServerOnly, client, Refuse,
         TypedAt, Server, Wire, ConnSound, ServerSound, WireSound, Past, TokenAdmits
  <2>2. WireSound(c)'
      BY <1>0 DEF Known, LoadSettings, ServerGoto, ServerOnly, client, Refuse,
         TypedAt, Server, Wire, ConnSound, ServerSound, WireSound
  <2>3. ClientSound(c)'
      BY <1>0 DEF Known, LoadSettings, ServerGoto, ServerOnly, client, Refuse,
         TypedAt, Server, Wire, Client, ConnSound, WireSound, ClientSound, ReadOut
  <2> QED
      BY <2>1, <2>2, <2>3 DEF ConnSound
<1>4. Rest' /\ KeepsSlot(c)
    BY <1>0, TransferAssumption DEF Known, LoadSettings, ServerGoto, ServerOnly,
       client, Refuse, TypedAt, Server, Rest, KeepsSlot, Counted, ConnSound,
       ServerSound
<1> QED
    BY <1>1, <1>2, <1>3, <1>4 DEF Moves

LEMMA CheckFollowerMoves ==
    ASSUME TransferInv, NEW c \in Conn, CheckFollower(c)
    PROVE  Moves(c)
<1>0. Known(c)
    BY Facts
<1>1. Framed(c)
    BY <1>0 DEF Known, CheckFollower, ServerGoto, ServerOnly, client, Refuse,
       Limited, Framed
<1>2. TypedAt(c)'
  <2>1. srv'[c] \in Server
      BY <1>0 DEF Known, CheckFollower, ServerGoto, ServerOnly, client, Refuse,
         Limited, TypedAt, Server, ServerPhase
  <2>2. wire'[c] \in Wire
      BY <1>0 DEF Known, CheckFollower, ServerGoto, ServerOnly, client, Refuse,
         Limited, TypedAt, Wire
  <2>3. cli'[c] \in Client /\ ask'[c] \in Ask \cup {NoAsk}
      BY <1>0 DEF Known, CheckFollower, ServerGoto, ServerOnly, client, Refuse,
         Limited, TypedAt, Client, ClientPhase, Ended
  <2> QED
      BY <2>1, <2>2, <2>3 DEF TypedAt
<1>3. ConnSound(c)'
  <2>1. ServerSound(c)'
    <3>1. /\ ask' = ask /\ srv'[c].settings = srv[c].settings
          /\ srv'[c].guard = srv[c].guard /\ srv'[c].current = srv[c].current
          /\ srv[c].phase = "gate"
          /\ srv'[c].phase \in {"acquire", "path", "return"}
          /\ srv'[c].phase = "acquire" => srv[c].settings.limit # NoLimit
        BY <1>0 DEF Known, CheckFollower, ServerGoto, ServerOnly, client, Refuse, Limited,
           TypedAt, Server
    <3>2. srv[c].settings.limit \in Nat \cup {NoLimit}
        BY <1>0 DEF Known, TypedAt, Server, ShareSettings
    <3> QED
        BY <1>0, <3>1, <3>2 DEF Known, ConnSound, ServerSound, Past, TokenAdmits
  <2>2. WireSound(c)'
      BY <1>0 DEF Known, CheckFollower, ServerGoto, ServerOnly, client, Refuse,
         Limited, TypedAt, Server, Wire, Client, ConnSound, ServerSound,
         WireSound, ClientSound, ReadOut, Past, Vetted, TokenAdmits
  <2>3. ClientSound(c)'
      BY <1>0 DEF Known, CheckFollower, ServerGoto, ServerOnly, client, Refuse,
         Limited, TypedAt, Server, Wire, Client, ConnSound, ServerSound,
         WireSound, ClientSound, ReadOut, Past
  <2> QED
      BY <2>1, <2>2, <2>3 DEF ConnSound
<1>4. Rest' /\ KeepsSlot(c)
    BY <1>0, TransferAssumption DEF Known, CheckFollower, ServerGoto,
       ServerOnly, client, Refuse, Limited, TypedAt, Server, Rest, KeepsSlot,
       Counted, ConnSound, ServerSound
<1> QED
    BY <1>1, <1>2, <1>3, <1>4 DEF Moves

LEMMA AcquireSlotMoves ==
    ASSUME TransferInv, NEW c \in Conn, AcquireSlot(c)
    PROVE  Moves(c)
<1>0. Known(c)
    BY Facts
<1>1. Framed(c)
    BY <1>0 DEF Known, AcquireSlot, ServerGoto, ServerOnly, client, Framed
<1>2. TypedAt(c)'
  <2>1. srv'[c] \in Server
    <3>1. srv'[c] = [srv[c] EXCEPT !.phase = "count", !.current = active + 1]
        BY <1>0 DEF Known, AcquireSlot
    <3>2. srv[c] \in Server /\ active + 1 \in Nat
        BY <1>0 DEF Known, TypedAt
    <3> QED
        BY <3>1, <3>2 DEF Server, ServerPhase
  <2>2. wire'[c] \in Wire
      BY <1>0 DEF Known, AcquireSlot, ServerGoto, ServerOnly, client, TypedAt,
         Wire
  <2>3. cli'[c] \in Client /\ ask'[c] \in Ask \cup {NoAsk}
      BY <1>0 DEF Known, AcquireSlot, ServerGoto, ServerOnly, client, TypedAt,
         Client, ClientPhase, Ended
  <2> QED
      BY <2>1, <2>2, <2>3 DEF TypedAt
<1>3. ConnSound(c)'
    BY <1>0, TransferAssumption DEF Known, AcquireSlot, ServerGoto, ServerOnly,
       client, TypedAt, Server, Wire, Client, ConnSound, ServerSound, WireSound,
       ClientSound, ReadOut, Past, Vetted, TokenAdmits
<1>4. Rest' /\ Acquires(c)
    BY <1>0, TransferAssumption DEF Known, AcquireSlot, ServerGoto, ServerOnly,
       client, TypedAt, Server, Rest, Acquires, Counted, ConnSound, ServerSound
<1> QED
    BY <1>1, <1>2, <1>3, <1>4 DEF Moves

LEMMA CheckLimitMoves ==
    ASSUME TransferInv, NEW c \in Conn, CheckLimit(c)
    PROVE  Moves(c)
<1>0. Known(c)
    BY Facts
<1>1. Framed(c)
    BY <1>0 DEF Known, CheckLimit, ServerGoto, ServerOnly, client, Refuse,
       OverLimit, Framed
<1>2. TypedAt(c)'
  <2>1. srv'[c] \in Server
      BY <1>0 DEF Known, CheckLimit, ServerGoto, ServerOnly, client, Refuse,
         OverLimit, TypedAt, Server, ServerPhase
  <2>2. wire'[c] \in Wire
      BY <1>0 DEF Known, CheckLimit, ServerGoto, ServerOnly, client, Refuse,
         OverLimit, TypedAt, Wire
  <2>3. cli'[c] \in Client /\ ask'[c] \in Ask \cup {NoAsk}
      BY <1>0 DEF Known, CheckLimit, ServerGoto, ServerOnly, client, Refuse,
         OverLimit, TypedAt, Client, ClientPhase, Ended
  <2> QED
      BY <2>1, <2>2, <2>3 DEF TypedAt
<1>3. ConnSound(c)'
    BY <1>0, TransferAssumption DEF Known, CheckLimit, ServerGoto, ServerOnly,
       client, Refuse, OverLimit, TypedAt, Server, Wire, Client, ConnSound,
       ServerSound, WireSound, ClientSound, ReadOut, Past, Vetted, TokenAdmits
<1>4. Rest' /\ (Releases(c) \/ KeepsSlot(c))
    BY <1>0, TransferAssumption DEF Known, CheckLimit, ServerGoto, ServerOnly,
       client, Refuse, OverLimit, TypedAt, Server, Rest, Releases, KeepsSlot,
       Counted, ConnSound, ServerSound
<1> QED
    BY <1>1, <1>2, <1>3, <1>4 DEF Moves

LEMMA CheckPathMoves ==
    ASSUME TransferInv, NEW c \in Conn, CheckPath(c)
    PROVE  Moves(c)
<1>0. Known(c)
    BY Facts
<1>1. Framed(c)
    BY <1>0 DEF Known, CheckPath, ServerGoto, ServerOnly, client, Refuse, Framed
<1>2. TypedAt(c)'
  <2>1. srv'[c] \in Server
      BY <1>0 DEF Known, CheckPath, ServerGoto, ServerOnly, client, Refuse,
         TypedAt, Server, ServerPhase
  <2>2. wire'[c] \in Wire
      BY <1>0 DEF Known, CheckPath, ServerGoto, ServerOnly, client, Refuse,
         TypedAt, Wire
  <2>3. cli'[c] \in Client /\ ask'[c] \in Ask \cup {NoAsk}
      BY <1>0 DEF Known, CheckPath, ServerGoto, ServerOnly, client, Refuse,
         TypedAt, Client, ClientPhase, Ended
  <2> QED
      BY <2>1, <2>2, <2>3 DEF TypedAt
<1>3. ConnSound(c)'
  <2>0. /\ ask' = ask /\ srv'[c].settings = srv[c].settings
        /\ srv'[c].guard = srv[c].guard /\ srv'[c].current = srv[c].current
        /\ srv[c].phase = "path" /\ wire'[c].sent = wire[c].sent
        /\ \/ /\ srv'[c].phase = "stream"
              /\ wire'[c].status = "ok" /\ wire'[c].fin = wire[c].fin
              /\ IsAllowedPath(ask[c].path, srv[c].settings.allowed)
           \/ srv'[c].phase = "return" /\ wire'[c].status = "error"
      BY <1>0 DEF Known, CheckPath, ServerGoto, ServerOnly, client, Refuse, TypedAt,
         Server, Wire
  <2>1. ServerSound(c)'
      BY <1>0, <2>0 DEF Known, ConnSound, ServerSound, WireSound, Past, TokenAdmits,
         TypedAt, Wire
  <2>2. WireSound(c)'
      BY <1>0, <2>0 DEF Known, ConnSound, ServerSound, WireSound, Past, Vetted, TokenAdmits,
         IsAllowedPath, TypedAt, Wire
  <2>3. ClientSound(c)'
      BY <1>0 DEF Known, CheckPath, ServerGoto, ServerOnly, client, Refuse,
         TypedAt, Server, Wire, Client, ConnSound, ServerSound, WireSound,
         ClientSound, ReadOut, Past
  <2> QED
      BY <2>1, <2>2, <2>3 DEF ConnSound
<1>4. Rest' /\ KeepsSlot(c)
    BY <1>0, TransferAssumption DEF Known, CheckPath, ServerGoto, ServerOnly,
       client, Refuse, TypedAt, Server, Rest, KeepsSlot, Counted, ConnSound,
       ServerSound
<1> QED
    BY <1>1, <1>2, <1>3, <1>4 DEF Moves

LEMMA SendChunkMoves ==
    ASSUME TransferInv, NEW c \in Conn, SendChunk(c)
    PROVE  Moves(c)
<1>0. Known(c)
    BY Facts
<1>1. Framed(c)
    BY <1>0 DEF Known, SendChunk, ServerGoto, ServerOnly, client, Framed
<1>2. TypedAt(c)'
  <2>1. srv'[c] \in Server
      BY <1>0 DEF Known, SendChunk, ServerGoto, ServerOnly, client, TypedAt,
         Server, ServerPhase
  <2>2. wire'[c] \in Wire
    <3>1. wire'[c] = [wire[c] EXCEPT !.sent = @ + 1] /\ wire[c].sent < Size
        BY <1>0 DEF Known, SendChunk
    <3> QED
        BY <1>0, <3>1, TransferAssumption DEF Known, TypedAt, Wire
  <2>3. cli'[c] \in Client /\ ask'[c] \in Ask \cup {NoAsk}
      BY <1>0 DEF Known, SendChunk, ServerGoto, ServerOnly, client, TypedAt,
         Client, ClientPhase, Ended
  <2> QED
      BY <2>1, <2>2, <2>3 DEF TypedAt
<1>3. ConnSound(c)'
    BY <1>0, TransferAssumption DEF Known, SendChunk, ServerGoto, ServerOnly,
       client, TypedAt, Server, Wire, Client, ConnSound, ServerSound, WireSound,
       ClientSound, ReadOut, Past, Vetted, TokenAdmits
<1>4. Rest' /\ KeepsSlot(c)
    BY <1>0, TransferAssumption DEF Known, SendChunk, ServerGoto, ServerOnly,
       client, TypedAt, Server, Rest, KeepsSlot, Counted, ConnSound, ServerSound
<1> QED
    BY <1>1, <1>2, <1>3, <1>4 DEF Moves

LEMMA EndStreamMoves ==
    ASSUME TransferInv, NEW c \in Conn, EndStream(c)
    PROVE  Moves(c)
<1>0. Known(c)
    BY Facts
<1>1. Framed(c)
    BY <1>0 DEF Known, EndStream, ServerGoto, ServerOnly, client, Change, Framed
<1>2. TypedAt(c)'
  <2>1. srv'[c] \in Server
      BY <1>0, TransferAssumption DEF Known, EndStream, ServerGoto, ServerOnly, client,
         Change, TypedAt, Server, ServerPhase
  <2>2. wire'[c] \in Wire
      BY <1>0, TransferAssumption DEF Known, EndStream, ServerGoto, ServerOnly, client,
         Change, TypedAt, Wire
  <2>3. cli'[c] \in Client /\ ask'[c] \in Ask \cup {NoAsk}
      BY <1>0, TransferAssumption DEF Known, EndStream, ServerGoto, ServerOnly, client,
         Change, TypedAt, Client, ClientPhase, Ended
  <2> QED
      BY <2>1, <2>2, <2>3 DEF TypedAt
<1>3. ConnSound(c)'
    BY <1>0, TransferAssumption DEF Known, EndStream, ServerGoto, ServerOnly,
       client, Change, TypedAt, Server, Wire, Client, ConnSound, ServerSound,
       WireSound, ClientSound, ReadOut, Past, Vetted, TokenAdmits
<1>4. Rest' /\ KeepsSlot(c)
    BY <1>0, TransferAssumption DEF Known, EndStream, ServerGoto, ServerOnly,
       client, Change, TypedAt, Server, Rest, KeepsSlot, Counted, ConnSound,
       ServerSound
<1> QED
    BY <1>1, <1>2, <1>3, <1>4 DEF Moves

LEMMA FailMoves ==
    ASSUME TransferInv, NEW c \in Conn, Fail(c)
    PROVE  Moves(c)
<1>0. Known(c)
    BY Facts
<1>1. Framed(c)
    BY <1>0 DEF Known, Fail, ServerGoto, ServerOnly, client, Change,
       EndSilently, Framed
<1>2. TypedAt(c)'
  <2>1. srv'[c] \in Server
      BY <1>0, TransferAssumption DEF Known, Fail, ServerGoto, ServerOnly, client,
         Change, EndSilently, TypedAt, Server, ServerPhase
  <2>2. wire'[c] \in Wire
      BY <1>0, TransferAssumption DEF Known, Fail, ServerGoto, ServerOnly, client,
         Change, EndSilently, TypedAt, Wire
  <2>3. cli'[c] \in Client /\ ask'[c] \in Ask \cup {NoAsk}
      BY <1>0, TransferAssumption DEF Known, Fail, ServerGoto, ServerOnly, client,
         Change, EndSilently, TypedAt, Client, ClientPhase, Ended
  <2> QED
      BY <2>1, <2>2, <2>3 DEF TypedAt
<1>3. ConnSound(c)'
    BY <1>0, TransferAssumption DEF Known, Fail, ServerGoto, ServerOnly, client,
       Change, EndSilently, TypedAt, Server, Wire, Client, ConnSound,
       ServerSound, WireSound, ClientSound, ReadOut, Past, Vetted, TokenAdmits
<1>4. Rest' /\ KeepsSlot(c)
    BY <1>0, TransferAssumption DEF Known, Fail, ServerGoto, ServerOnly, client,
       Change, EndSilently, TypedAt, Server, Rest, KeepsSlot, Counted,
       ConnSound, ServerSound
<1> QED
    BY <1>1, <1>2, <1>3, <1>4 DEF Moves

LEMMA PanicMoves ==
    ASSUME TransferInv, NEW c \in Conn, Panic(c)
    PROVE  Moves(c)
<1>0. Known(c)
    BY Facts
<1>1. Framed(c)
    BY <1>0 DEF Known, Panic, ServerGoto, ServerOnly, client, Release, Framed
<1>2. TypedAt(c)'
  <2>1. srv'[c] \in Server
      BY <1>0, TransferAssumption DEF Known, Panic, ServerGoto, ServerOnly, client,
         Release, TypedAt, Server, ServerPhase
  <2>2. wire'[c] \in Wire
      BY <1>0, TransferAssumption DEF Known, Panic, ServerGoto, ServerOnly, client,
         Release, TypedAt, Wire
  <2>3. cli'[c] \in Client /\ ask'[c] \in Ask \cup {NoAsk}
      BY <1>0, TransferAssumption DEF Known, Panic, ServerGoto, ServerOnly, client,
         Release, TypedAt, Client, ClientPhase, Ended
  <2> QED
      BY <2>1, <2>2, <2>3 DEF TypedAt
<1>3. ConnSound(c)'
    BY <1>0, TransferAssumption DEF Known, Panic, ServerGoto, ServerOnly,
       client, Release, TypedAt, Server, Wire, Client, ConnSound, ServerSound,
       WireSound, ClientSound, ReadOut, Past, Vetted, TokenAdmits
<1>4. Rest' /\ (Releases(c) \/ KeepsSlot(c))
    BY <1>0, TransferAssumption DEF Known, Panic, ServerGoto, ServerOnly,
       client, Release, TypedAt, Server, Rest, Releases, KeepsSlot, Counted,
       ConnSound, ServerSound
<1> QED
    BY <1>1, <1>2, <1>3, <1>4 DEF Moves

LEMMA AbandonMoves ==
    ASSUME TransferInv, NEW c \in Conn, Abandon(c)
    PROVE  Moves(c)
<1>0. Known(c)
    BY Facts
<1>1. Framed(c)
    BY <1>0 DEF Known, Abandon, ServerGoto, ServerOnly, client, Framed
<1>2. TypedAt(c)'
  <2>1. wire' = wire /\ cli' = cli /\ ask' = ask
      BY DEF Abandon, ServerOnly, client
  <2>2. srv'[c] = [srv[c] EXCEPT !.phase = "return"]
      BY <1>0 DEF Known, Abandon, ServerGoto
  <2>3. srv'[c] \in Server
      BY <1>0, <2>2 DEF Known, TypedAt, Server, ServerPhase
  <2> QED
      BY <1>0, <2>1, <2>3 DEF Known, TypedAt
<1>3. ConnSound(c)'
    BY <1>0, TransferAssumption DEF Known, Abandon, ServerGoto, ServerOnly,
       client, TypedAt, Server, Wire, Client, ConnSound, ServerSound, WireSound,
       ClientSound, ReadOut, Past, Vetted, TokenAdmits
<1>4. Rest' /\ KeepsSlot(c)
    BY <1>0, TransferAssumption DEF Known, Abandon, ServerGoto, ServerOnly,
       client, TypedAt, Server, Rest, KeepsSlot, Counted, ConnSound, ServerSound
<1> QED
    BY <1>1, <1>2, <1>3, <1>4 DEF Moves

LEMMA ReturnMoves ==
    ASSUME TransferInv, NEW c \in Conn, Return(c)
    PROVE  Moves(c)
<1>0. Known(c)
    BY Facts
<1>1. Framed(c)
    BY <1>0 DEF Known, Return, ServerGoto, ServerOnly, client, Release, Framed
<1>2. TypedAt(c)'
  <2>1. srv'[c] \in Server
      BY <1>0 DEF Known, Return, ServerGoto, ServerOnly, client, Release,
         TypedAt, Server, ServerPhase
  <2>2. wire'[c] \in Wire
      BY <1>0 DEF Known, Return, ServerGoto, ServerOnly, client, Release,
         TypedAt, Wire
  <2>3. cli'[c] \in Client /\ ask'[c] \in Ask \cup {NoAsk}
      BY <1>0 DEF Known, Return, ServerGoto, ServerOnly, client, Release,
         TypedAt, Client, ClientPhase, Ended
  <2> QED
      BY <2>1, <2>2, <2>3 DEF TypedAt
<1>3. ConnSound(c)'
    BY <1>0, TransferAssumption DEF Known, Return, ServerGoto, ServerOnly,
       client, Release, TypedAt, Server, Wire, Client, ConnSound, ServerSound,
       WireSound, ClientSound, ReadOut, Past, Vetted, TokenAdmits
<1>4. Rest' /\ (Releases(c) \/ KeepsSlot(c))
    BY <1>0, TransferAssumption DEF Known, Return, ServerGoto, ServerOnly,
       client, Release, TypedAt, Server, Rest, Releases, KeepsSlot, Counted,
       ConnSound, ServerSound
<1> QED
    BY <1>1, <1>2, <1>3, <1>4 DEF Moves

LEMMA DrainMoves ==
    ASSUME TransferInv, NEW c \in Conn, Drain(c)
    PROVE  Moves(c)
<1>0. Known(c)
    BY Facts
<1>1. Framed(c)
    BY <1>0 DEF Known, Drain, ServerGoto, ServerOnly, client, Framed
<1>2. TypedAt(c)'
  <2>1. srv'[c] \in Server
      BY <1>0, TransferAssumption DEF Known, Drain, ServerGoto, ServerOnly, client,
         TypedAt, Server, ServerPhase
  <2>2. wire'[c] \in Wire
      BY <1>0, TransferAssumption DEF Known, Drain, ServerGoto, ServerOnly, client,
         TypedAt, Wire
  <2>3. cli'[c] \in Client /\ ask'[c] \in Ask \cup {NoAsk}
      BY <1>0, TransferAssumption DEF Known, Drain, ServerGoto, ServerOnly, client,
         TypedAt, Client, ClientPhase, Ended
  <2> QED
      BY <2>1, <2>2, <2>3 DEF TypedAt
<1>3. ConnSound(c)'
    BY <1>0, TransferAssumption DEF Known, Drain, ServerGoto, ServerOnly,
       client, TypedAt, Server, Wire, Client, ConnSound, ServerSound, WireSound,
       ClientSound, ReadOut, Past, Vetted, TokenAdmits
<1>4. Rest' /\ KeepsSlot(c)
    BY <1>0, TransferAssumption DEF Known, Drain, ServerGoto, ServerOnly,
       client, TypedAt, Server, Rest, KeepsSlot, Counted, ConnSound, ServerSound
<1> QED
    BY <1>1, <1>2, <1>3, <1>4 DEF Moves

LEMMA TimeOutMoves ==
    ASSUME TransferInv, NEW c \in Conn, TimeOut(c)
    PROVE  Moves(c)
<1>0. Known(c)
    BY Facts
<1>1. Framed(c)
    BY <1>0 DEF Known, TimeOut, ServerGoto, ServerOnly, client, Framed
<1>2. TypedAt(c)'
  <2>1. srv'[c] \in Server
      BY <1>0, TransferAssumption DEF Known, TimeOut, ServerGoto, ServerOnly, client,
         TypedAt, Server, ServerPhase
  <2>2. wire'[c] \in Wire
      BY <1>0, TransferAssumption DEF Known, TimeOut, ServerGoto, ServerOnly, client,
         TypedAt, Wire
  <2>3. cli'[c] \in Client /\ ask'[c] \in Ask \cup {NoAsk}
      BY <1>0, TransferAssumption DEF Known, TimeOut, ServerGoto, ServerOnly, client,
         TypedAt, Client, ClientPhase, Ended
  <2> QED
      BY <2>1, <2>2, <2>3 DEF TypedAt
<1>3. ConnSound(c)'
    BY <1>0, TransferAssumption DEF Known, TimeOut, ServerGoto, ServerOnly,
       client, TypedAt, Server, Wire, Client, ConnSound, ServerSound, WireSound,
       ClientSound, ReadOut, Past, Vetted, TokenAdmits
<1>4. Rest' /\ KeepsSlot(c)
    BY <1>0, TransferAssumption DEF Known, TimeOut, ServerGoto, ServerOnly,
       client, TypedAt, Server, Rest, KeepsSlot, Counted, ConnSound, ServerSound
<1> QED
    BY <1>1, <1>2, <1>3, <1>4 DEF Moves

(***************************************************************************)
(* The client's steps, and what happens to a connection from outside.      *)
(***************************************************************************)
LEMMA RegisterMoves ==
    ASSUME TransferInv, NEW c \in Conn, Register(c)
    PROVE  Moves(c)
<1>0. Known(c)
    BY Facts
<1>1. Framed(c)
    BY <1>0 DEF Known, Register, ClientOnly, ServerGoto, server, Framed
<1>2. TypedAt(c)'
  <2>1. srv'[c] \in Server
      BY <1>0, TransferAssumption DEF Known, Register, ClientOnly, ServerGoto, server,
         TypedAt, Server, ServerPhase
  <2>2. wire'[c] \in Wire
      BY <1>0, TransferAssumption DEF Known, Register, ClientOnly, ServerGoto, server,
         TypedAt, Wire
  <2>3. cli'[c] \in Client /\ ask'[c] \in Ask \cup {NoAsk}
      BY <1>0, TransferAssumption DEF Known, Register, ClientOnly, ServerGoto, server,
         TypedAt, Client, ClientPhase, Ended
  <2> QED
      BY <2>1, <2>2, <2>3 DEF TypedAt
<1>3. ConnSound(c)'
    BY <1>0, TransferAssumption DEF Known, Register, ClientOnly, ServerGoto,
       server, TypedAt, Server, Wire, Client, ConnSound, ServerSound, WireSound,
       ClientSound, ReadOut, Past, Vetted, TokenAdmits
<1>4. Rest' /\ KeepsSlot(c)
    BY <1>0 DEF Known, Register, ClientOnly, ServerGoto, server, TypedAt, Server, Rest,
       KeepsSlot, Counted, ConnSound, ServerSound, ClientSound, ReadOut
<1> QED
    BY <1>1, <1>2, <1>3, <1>4 DEF Moves

LEMMA ConnectedMoves ==
    ASSUME TransferInv, NEW c \in Conn, Connected(c)
    PROVE  Moves(c)
<1>0. Known(c)
    BY Facts
<1>1. Framed(c)
    BY <1>0 DEF Known, Connected, ClientOnly, ClientGoto, server, Framed
<1>2. TypedAt(c)'
  <2>1. srv'[c] \in Server
      BY <1>0, TransferAssumption DEF Known, Connected, ClientOnly, ClientGoto, server,
         TypedAt, Server, ServerPhase
  <2>2. wire'[c] \in Wire
      BY <1>0, TransferAssumption DEF Known, Connected, ClientOnly, ClientGoto, server,
         TypedAt, Wire
  <2>3. cli'[c] \in Client /\ ask'[c] \in Ask \cup {NoAsk}
      BY <1>0, TransferAssumption DEF Known, Connected, ClientOnly, ClientGoto, server,
         TypedAt, Client, ClientPhase, Ended
  <2> QED
      BY <2>1, <2>2, <2>3 DEF TypedAt
<1>3. ConnSound(c)'
    BY <1>0, TransferAssumption DEF Known, Connected, ClientOnly, ClientGoto,
       server, TypedAt, Server, Wire, Client, ConnSound, ServerSound, WireSound,
       ClientSound, ReadOut, Past, Vetted, TokenAdmits
<1>4. Rest' /\ KeepsSlot(c)
    BY <1>0, TransferAssumption DEF Known, Connected, ClientOnly, ClientGoto,
       server, TypedAt, Server, Rest, KeepsSlot, Counted, ConnSound, ServerSound
<1> QED
    BY <1>1, <1>2, <1>3, <1>4 DEF Moves

LEMMA WriteTokenMoves ==
    ASSUME TransferInv, NEW c \in Conn, WriteToken(c)
    PROVE  Moves(c)
<1>0. Known(c)
    BY Facts
<1>1. Framed(c)
    BY <1>0 DEF Known, WriteToken, WriteFrame, ClientOnly, ClientGoto, server,
       Framed
<1>2. TypedAt(c)'
  <2>1. srv'[c] \in Server
      BY <1>0 DEF Known, WriteToken, WriteFrame, ClientOnly, ClientGoto, server,
         TypedAt, Server, ServerPhase
  <2>2. wire'[c] \in Wire
      BY <1>0, SMTT(60) DEF Known, WriteToken, WriteFrame, ClientOnly, ClientGoto, server,
         TypedAt, Wire
  <2>3. cli'[c] \in Client /\ ask'[c] \in Ask \cup {NoAsk}
      BY <1>0 DEF Known, WriteToken, WriteFrame, ClientOnly, ClientGoto, server,
         TypedAt, Client, ClientPhase, Ended
  <2> QED
      BY <2>1, <2>2, <2>3 DEF TypedAt
<1>3. ConnSound(c)'
  <2>0. /\ srv' = srv /\ ask' = ask
        /\ wire'[c].status = wire[c].status /\ wire'[c].fin = wire[c].fin
        /\ wire'[c].sent = wire[c].sent /\ wire'[c].by = wire[c].by
      BY <1>0 DEF Known, WriteToken, WriteFrame, ClientOnly, server, TypedAt, Wire
  <2>1. ServerSound(c)'
      BY <1>0, <2>0 DEF Known, ConnSound, ServerSound, Past, TokenAdmits
  <2>2. WireSound(c)'
      BY <1>0, <2>0 DEF Known, ConnSound, WireSound, Vetted, TokenAdmits
  <2>3. ClientSound(c)'
      BY <1>0 DEF Known, WriteToken, WriteFrame, ClientOnly, ClientGoto, server,
         TypedAt, Server, Wire, Client, ConnSound, ServerSound, WireSound,
         ClientSound, ReadOut, Past
  <2> QED
      BY <2>1, <2>2, <2>3 DEF ConnSound
<1>4. Rest' /\ KeepsSlot(c)
    BY <1>0, TransferAssumption DEF Known, WriteToken, WriteFrame, ClientOnly,
       ClientGoto, server, TypedAt, Server, Rest, KeepsSlot, Counted, ConnSound,
       ServerSound
<1> QED
    BY <1>1, <1>2, <1>3, <1>4 DEF Moves

LEMMA WriteRequestMoves ==
    ASSUME TransferInv, NEW c \in Conn, WriteRequest(c)
    PROVE  Moves(c)
<1>0. Known(c)
    BY Facts
<1>1. Framed(c)
    BY <1>0 DEF Known, WriteRequest, WriteFrame, ClientOnly, ClientGoto, server,
       Framed
<1>2. TypedAt(c)'
  <2>1. srv'[c] \in Server
      BY <1>0 DEF Known, WriteRequest, WriteFrame, ClientOnly, ClientGoto,
         server, TypedAt, Server, ServerPhase
  <2>2. wire'[c] \in Wire
      BY <1>0, SMTT(60) DEF Known, WriteRequest, WriteFrame, ClientOnly, ClientGoto,
         server, TypedAt, Wire
  <2>3. cli'[c] \in Client /\ ask'[c] \in Ask \cup {NoAsk}
      BY <1>0 DEF Known, WriteRequest, WriteFrame, ClientOnly, ClientGoto,
         server, TypedAt, Client, ClientPhase, Ended
  <2> QED
      BY <2>1, <2>2, <2>3 DEF TypedAt
<1>3. ConnSound(c)'
  <2>0. /\ srv' = srv /\ ask' = ask
        /\ wire'[c].status = wire[c].status /\ wire'[c].fin = wire[c].fin
        /\ wire'[c].sent = wire[c].sent /\ wire'[c].by = wire[c].by
      BY <1>0 DEF Known, WriteRequest, WriteFrame, ClientOnly, server, TypedAt, Wire
  <2>1. ServerSound(c)'
      BY <1>0, <2>0 DEF Known, ConnSound, ServerSound, Past, TokenAdmits
  <2>2. WireSound(c)'
      BY <1>0, <2>0 DEF Known, ConnSound, WireSound, Vetted, TokenAdmits
  <2>3. ClientSound(c)'
      BY <1>0 DEF Known, WriteRequest, WriteFrame, ClientOnly, ClientGoto,
         server, TypedAt, Server, Wire, Client, ConnSound, ServerSound,
         WireSound, ClientSound, ReadOut, Past
  <2> QED
      BY <2>1, <2>2, <2>3 DEF ConnSound
<1>4. Rest' /\ KeepsSlot(c)
    BY <1>0, TransferAssumption DEF Known, WriteRequest, WriteFrame, ClientOnly,
       ClientGoto, server, TypedAt, Server, Rest, KeepsSlot, Counted, ConnSound,
       ServerSound
<1> QED
    BY <1>1, <1>2, <1>3, <1>4 DEF Moves

LEMMA ReadStatusMoves ==
    ASSUME TransferInv, NEW c \in Conn, ReadStatus(c)
    PROVE  Moves(c)
<1>0. Known(c)
    BY Facts
<1>1. Framed(c)
    BY <1>0 DEF Known, ReadStatus, Finish, ClientOnly, ClientGoto, server,
       Framed
<1>2. TypedAt(c)'
  <2>1. srv' = srv /\ wire' = wire /\ ask' = ask
      BY DEF ReadStatus, Finish, ClientOnly
  <2>2. \/ cli'[c] = [cli[c] EXCEPT !.phase = "refused", !.event = "error", !.file = FALSE]
        \/ cli'[c] = [cli[c] EXCEPT !.phase = "body", !.file = TRUE]
        \/ cli'[c] = [cli[c] EXCEPT !.phase = "failed"]
      BY <1>0 DEF Known, TypedAt, ReadStatus, Finish, ClientGoto
  <2>3. cli'[c] \in Client
      BY <1>0, <2>2 DEF Known, TypedAt, Client, ClientPhase, Ended
  <2> QED
      BY <1>0, <2>1, <2>3 DEF Known, TypedAt
<1>3. ConnSound(c)'
    BY <1>0, TransferAssumption DEF Known, ReadStatus, Finish, ClientOnly,
       ClientGoto, server, TypedAt, Server, Wire, Client, ConnSound,
       ServerSound, WireSound, ClientSound, ReadOut, Past, Vetted, TokenAdmits
<1>4. Rest' /\ KeepsSlot(c)
    BY <1>0, TransferAssumption DEF Known, ReadStatus, Finish, ClientOnly,
       ClientGoto, server, TypedAt, Server, Rest, KeepsSlot, Counted, ConnSound,
       ServerSound
<1> QED
    BY <1>1, <1>2, <1>3, <1>4 DEF Moves

LEMMA LoopTopMoves ==
    ASSUME TransferInv, NEW c \in Conn, LoopTop(c)
    PROVE  Moves(c)
<1>0. Known(c)
    BY Facts
<1>1. Framed(c)
    BY <1>0 DEF Known, LoopTop, Finish, ClientOnly, ClientGoto, server, Framed
<1>2. TypedAt(c)'
  <2>1. srv'[c] \in Server
      BY <1>0 DEF Known, LoopTop, Finish, ClientOnly, ClientGoto, server,
         TypedAt, Server, ServerPhase
  <2>2. wire'[c] \in Wire
      BY <1>0 DEF Known, LoopTop, Finish, ClientOnly, ClientGoto, server,
         TypedAt, Wire
  <2>3. cli'[c] \in Client /\ ask'[c] \in Ask \cup {NoAsk}
      BY <1>0 DEF Known, LoopTop, Finish, ClientOnly, ClientGoto, server,
         TypedAt, Client, ClientPhase, Ended
  <2> QED
      BY <2>1, <2>2, <2>3 DEF TypedAt
<1>3. ConnSound(c)'
    BY <1>0, TransferAssumption DEF Known, LoopTop, Finish, ClientOnly,
       ClientGoto, server, TypedAt, Server, Wire, Client, ConnSound,
       ServerSound, WireSound, ClientSound, ReadOut, Past, Vetted, TokenAdmits
<1>4. Rest' /\ KeepsSlot(c)
    BY <1>0, TransferAssumption DEF Known, LoopTop, Finish, ClientOnly,
       ClientGoto, server, TypedAt, Server, Rest, KeepsSlot, Counted, ConnSound,
       ServerSound
<1> QED
    BY <1>1, <1>2, <1>3, <1>4 DEF Moves

LEMMA ReadChunkMoves ==
    ASSUME TransferInv, NEW c \in Conn, ReadChunk(c)
    PROVE  Moves(c)
<1>0. Known(c)
    BY Facts
<1>1. Framed(c)
    BY <1>0 DEF Known, ReadChunk, ClientOnly, ClientGoto, server, Framed
<1>2. TypedAt(c)'
    BY <1>0, TransferAssumption DEF Known, ReadChunk, ClientOnly, ClientGoto,
       server, TypedAt, Server, ServerPhase, Wire, Client, ClientPhase, Ended
<1>3. ConnSound(c)'
    BY <1>0, TransferAssumption DEF Known, ReadChunk, ClientOnly, ClientGoto,
       server, TypedAt, Server, Wire, Client, ConnSound, ServerSound, WireSound,
       ClientSound, ReadOut, Past, Vetted, TokenAdmits
<1>4. Rest' /\ KeepsSlot(c)
    BY <1>0, TransferAssumption DEF Known, ReadChunk, ClientOnly, ClientGoto,
       server, TypedAt, Server, Rest, KeepsSlot, Counted, ConnSound, ServerSound
<1> QED
    BY <1>1, <1>2, <1>3, <1>4 DEF Moves

LEMMA CheckFileMoves ==
    ASSUME TransferInv, NEW c \in Conn, CheckFile(c)
    PROVE  Moves(c)
<1>0. Known(c)
    BY Facts
<1>1. Framed(c)
    BY <1>0 DEF Known, CheckFile, Finish, VerifyHash, ClientOnly, server, Framed
<1>2. TypedAt(c)'
  <2>1. srv'[c] \in Server
      BY <1>0, TransferAssumption DEF Known, CheckFile, Finish, VerifyHash, ClientOnly,
         server, TypedAt, Server, ServerPhase
  <2>2. wire'[c] \in Wire
      BY <1>0, TransferAssumption DEF Known, CheckFile, Finish, VerifyHash, ClientOnly,
         server, TypedAt, Wire
  <2>3. cli'[c] \in Client /\ ask'[c] \in Ask \cup {NoAsk}
      BY <1>0, TransferAssumption DEF Known, CheckFile, Finish, VerifyHash, ClientOnly,
         server, TypedAt, Client, ClientPhase, Ended
  <2> QED
      BY <2>1, <2>2, <2>3 DEF TypedAt
<1>3. ConnSound(c)'
    BY <1>0, TransferAssumption DEF Known, CheckFile, Finish, VerifyHash,
       ClientOnly, server, TypedAt, Server, Wire, Client, ConnSound,
       ServerSound, WireSound, ClientSound, ReadOut, Past, Vetted, TokenAdmits
<1>4. Rest' /\ KeepsSlot(c)
    BY <1>0, TransferAssumption DEF Known, CheckFile, Finish, VerifyHash,
       ClientOnly, server, TypedAt, Server, Rest, KeepsSlot, Counted, ConnSound,
       ServerSound
<1> QED
    BY <1>1, <1>2, <1>3, <1>4 DEF Moves

LEMMA ClientFailsMoves ==
    ASSUME TransferInv, NEW c \in Conn, ClientFails(c)
    PROVE  Moves(c)
<1>0. Known(c)
    BY Facts
<1>1. Framed(c)
    BY <1>0 DEF Known, ClientFails, ClientOnly, ClientGoto, server, Framed
<1>2. TypedAt(c)'
  <2>1. srv'[c] \in Server
      BY <1>0, TransferAssumption DEF Known, ClientFails, ClientOnly, ClientGoto,
         server, TypedAt, Server, ServerPhase
  <2>2. wire'[c] \in Wire
      BY <1>0, TransferAssumption DEF Known, ClientFails, ClientOnly, ClientGoto,
         server, TypedAt, Wire
  <2>3. cli'[c] \in Client /\ ask'[c] \in Ask \cup {NoAsk}
      BY <1>0, TransferAssumption DEF Known, ClientFails, ClientOnly, ClientGoto,
         server, TypedAt, Client, ClientPhase, Ended
  <2> QED
      BY <2>1, <2>2, <2>3 DEF TypedAt
<1>3. ConnSound(c)'
    BY <1>0, TransferAssumption DEF Known, ClientFails, ClientOnly, ClientGoto,
       server, TypedAt, Server, Wire, Client, ConnSound, ServerSound, WireSound,
       ClientSound, ReadOut, Past, Vetted, TokenAdmits
<1>4. Rest' /\ KeepsSlot(c)
    BY <1>0, TransferAssumption DEF Known, ClientFails, ClientOnly, ClientGoto,
       server, TypedAt, Server, Rest, KeepsSlot, Counted, ConnSound, ServerSound
<1> QED
    BY <1>1, <1>2, <1>3, <1>4 DEF Moves

LEMMA CancelDownloadMoves ==
    ASSUME TransferInv, NEW c \in Conn, CancelDownload(c)
    PROVE  Moves(c)
<1>0. Known(c)
    BY Facts
<1>1. Framed(c)
    BY <1>0 DEF Known, CancelDownload, Change, ClientOnly, server, Framed
<1>2. TypedAt(c)'
    BY <1>0, TransferAssumption DEF Known, CancelDownload, Change, ClientOnly,
       server, TypedAt, Server, ServerPhase, Wire, Client, ClientPhase, Ended
<1>3. ConnSound(c)'
    BY <1>0, TransferAssumption DEF Known, CancelDownload, Change, ClientOnly,
       server, TypedAt, Server, Wire, Client, ConnSound, ServerSound, WireSound,
       ClientSound, ReadOut, Past, Vetted, TokenAdmits
<1>4. Rest' /\ KeepsSlot(c)
    BY <1>0, TransferAssumption DEF Known, CancelDownload, Change, ClientOnly,
       server, TypedAt, Server, Rest, KeepsSlot, Counted, ConnSound, ServerSound
<1> QED
    BY <1>1, <1>2, <1>3, <1>4 DEF Moves

LEMMA LoseConnectionMoves ==
    ASSUME TransferInv, NEW c \in Conn, LoseConnection(c)
    PROVE  Moves(c)
<1>0. Known(c)
    BY Facts
<1>1. Framed(c)
    BY <1>0 DEF Known, LoseConnection, Change, server, client, Framed
<1>2. TypedAt(c)'
  <2>1. srv'[c] \in Server
      BY <1>0 DEF Known, LoseConnection, Change, server, client, TypedAt,
         Server, ServerPhase
  <2>2. wire'[c] \in Wire
      BY <1>0 DEF Known, LoseConnection, Change, server, client, TypedAt, Wire
  <2>3. cli'[c] \in Client /\ ask'[c] \in Ask \cup {NoAsk}
      BY <1>0 DEF Known, LoseConnection, Change, server, client, TypedAt,
         Client, ClientPhase, Ended
  <2> QED
      BY <2>1, <2>2, <2>3 DEF TypedAt
<1>3. ConnSound(c)'
    BY <1>0, TransferAssumption DEF Known, LoseConnection, Change, server,
       client, TypedAt, Server, Wire, Client, ConnSound, ServerSound, WireSound,
       ClientSound, ReadOut, Past, Vetted, TokenAdmits
<1>4. Rest' /\ KeepsSlot(c)
    BY <1>0, TransferAssumption DEF Known, LoseConnection, Change, server,
       client, TypedAt, Server, Rest, KeepsSlot, Counted, ConnSound, ServerSound
<1> QED
    BY <1>1, <1>2, <1>3, <1>4 DEF Moves

LEMMA RequestDownloadMoves ==
    ASSUME TransferInv, NEW c \in Conn, NEW a \in Asked[c], RequestDownload(c, a)
    PROVE  Moves(c)
<1>0. Known(c) /\ a \in Ask
    BY Facts, TransferAssumption
<1>1. Framed(c)
    BY <1>0 DEF Known, RequestDownload, ClientGoto, server, Framed
<1>2. TypedAt(c)'
    BY <1>0 DEF Known, RequestDownload, ClientGoto, server, TypedAt, Client, ClientPhase, Ended
<1>3. ConnSound(c)'
    BY <1>0 DEF Known, RequestDownload, ClientGoto, server, TypedAt, Client, ConnSound,
       ServerSound, WireSound, ClientSound, ReadOut, Past, Vetted, TokenAdmits
<1>4. Rest' /\ KeepsSlot(c)
    BY <1>0 DEF Known, RequestDownload, ClientGoto, server, Rest, KeepsSlot, Counted
<1> QED
    BY <1>1, <1>2, <1>3, <1>4 DEF Moves

-----------------------------------------------------------------------------
(* A step of that shape preserves the invariant.                            *)

LEMMA OthersStay ==
    ASSUME TransferInv, NEW c \in Conn, Framed(c), NEW d \in Conn, d # c
    PROVE  /\ srv'[d] = srv[d] /\ wire'[d] = wire[d] /\ cli'[d] = cli[d] /\ ask'[d] = ask[d]
           /\ Counted(d)' = Counted(d)
<1>1. Known(d)
    BY Facts
<1> QED
    BY <1>1 DEF Framed, Known, Counted

LEMMA SoundFramed ==
    ASSUME TransferInv, NEW c \in Conn, Framed(c), ConnSound(c)', NEW d \in Conn
    PROVE  ConnSound(d)'
<1>1. CASE d = c
    BY <1>1
<1>2. CASE d # c
    <2>1. ConnSound(d)
        BY DEF TransferInv
    <2> QED
        BY <1>2, <2>1, OthersStay DEF ConnSound, ServerSound, WireSound, ClientSound,
           ReadOut, Past, Vetted, TokenAdmits
<1> QED
    BY <1>1, <1>2

LEMMA HoldersFinite ==
    /\ IsFiniteSet(Holders) /\ Cardinality(Holders) \in Nat
    /\ \A n \in Nat : IsFiniteSet(Early(n)) /\ Cardinality(Early(n)) \in Nat
<1>1. Holders \subseteq Conn /\ \A n \in Nat : Early(n) \subseteq Conn
    BY DEF Holders, Early
<1> QED
    BY <1>1, TransferAssumption, FS_Subset, FS_CardinalityType

LEMMA FiniteNext ==
    /\ IsFiniteSet(Holders')
    /\ \A n \in Nat : IsFiniteSet(Early(n)') /\ Cardinality(Early(n)') \in Nat
<1>1. Holders' \subseteq Conn /\ \A n \in Nat : Early(n)' \subseteq Conn
    BY DEF Holders, Early
<1> QED
    BY <1>1, TransferAssumption, FS_Subset, FS_CardinalityType

LEMMA HoldersMove ==
    ASSUME TransferInv, NEW c \in Conn, Moves(c)
    PROVE  active' \in Nat /\ active' = Cardinality(Holders')
<1>0. active \in Nat /\ active = Cardinality(Holders)
    BY DEF TransferInv, TransferTypeOK, SlotsSound, SlotsAreHeld, Holders
<1>1. CASE Acquires(c)
    <2>1. Holders' = Holders \cup {c} /\ c \notin Holders
        BY <1>1, OthersStay DEF Moves, Acquires, Holders
    <2>2. Cardinality(Holders') = Cardinality(Holders) + 1
        BY <2>1, HoldersFinite, FS_AddElement
    <2>3. active' = active + 1
        BY <1>1 DEF Acquires
    <2> QED
        BY <1>0, <2>2, <2>3
<1>2. CASE Releases(c)
    <2>1. Holders' = Holders \ {c} /\ c \in Holders
        BY <1>2, OthersStay DEF Moves, Releases, Holders
    <2>2. Cardinality(Holders') = Cardinality(Holders) - 1
        BY <2>1, HoldersFinite, FS_RemoveElement
    <2>3. Cardinality(Holders') \in Nat
        BY FiniteNext, FS_CardinalityType
    <2> QED
        BY <1>0, <1>2, <2>2, <2>3 DEF Releases
<1>3. CASE KeepsSlot(c)
    <2>1. Holders' = Holders
        BY <1>3, OthersStay DEF Moves, KeepsSlot, Holders
    <2> QED
        BY <1>0, <1>3, <2>1 DEF KeepsSlot
<1> QED
    BY <1>1, <1>2, <1>3 DEF Moves

LEMMA EarlyMove ==
    ASSUME TransferInv, NEW c \in Conn, Moves(c), NEW n \in Nat
    PROVE  Cardinality(Early(n)') <= n
<1>0. Cardinality(Early(n)) <= n /\ Cardinality(Early(n)) \in Nat
    BY HoldersFinite DEF TransferInv, SlotsSound
<1>1. \A d \in Conn : d # c => (d \in Early(n)' <=> d \in Early(n))
    BY OthersStay DEF Moves, Early
<1>2. CASE c \notin Early(n)' \/ c \in Early(n)
    <2>1. Early(n)' \subseteq Early(n)
        BY <1>1, <1>2 DEF Early
    <2>2. Cardinality(Early(n)') <= Cardinality(Early(n))
        BY <2>1, HoldersFinite, FS_Subset
    <2>3. Cardinality(Early(n)') \in Nat
        BY FiniteNext
    <2> QED
        BY <1>0, <2>2, <2>3
<1>3. CASE c \in Early(n)' /\ c \notin Early(n)
    <2>1. Acquires(c)
        BY <1>3 DEF Moves, Releases, KeepsSlot, Early
    <2>2. active' <= n
        BY <1>3, <2>1 DEF Acquires, Early
    <2>3. Early(n)' \subseteq Holders'
        BY DEF Early, Holders
    <2>4. Cardinality(Early(n)') <= Cardinality(Holders')
        BY <2>3, FiniteNext, FS_Subset
    <2> QED
        BY <2>2, <2>4, HoldersMove, FiniteNext
<1> QED
    BY <1>2, <1>3

LEMMA MovesKeepInv ==
    ASSUME TransferInv, NEW c \in Conn, Moves(c)
    PROVE  TransferInv'
<1>1. TransferTypeOK'
    <2>1. /\ srv \in [Conn -> Server] /\ wire \in [Conn -> Wire]
          /\ cli \in [Conn -> Client] /\ ask \in [Conn -> Ask \cup {NoAsk}]
        BY DEF TransferInv, TransferTypeOK
    <2>2. /\ srv' \in [Conn -> Server] /\ wire' \in [Conn -> Wire]
          /\ cli' \in [Conn -> Client] /\ ask' \in [Conn -> Ask \cup {NoAsk}]
        BY <2>1 DEF Moves, Framed, TypedAt
    <2> QED
        BY <2>2, HoldersMove DEF Moves, Rest, TransferTypeOK
<1>2. \A d \in Conn : ConnSound(d)'
    BY SoundFramed DEF Moves
<1>3. SlotsSound'
    BY HoldersMove, EarlyMove DEF SlotsSound, SlotsAreHeld, Holders
<1> QED
    BY <1>1, <1>2, <1>3 DEF TransferInv

(* ... and so does one that concerns no connection. *)
LEMMA QuietKeepsInv ==
    ASSUME TransferInv, Rest', UNCHANGED <<active, srv, wire, ask, cli>>
    PROVE  TransferInv'
<1>1. TransferTypeOK'
    BY DEF TransferInv, TransferTypeOK, Rest
<1>2. \A d \in Conn : ConnSound(d)'
    BY DEF TransferInv, ConnSound, ServerSound, WireSound, ClientSound, ReadOut, Past,
       Vetted, TokenAdmits
<1>3. SlotsSound'
    BY DEF TransferInv, SlotsSound, SlotsAreHeld, Early, Counted
<1> QED
    BY <1>1, <1>2, <1>3 DEF TransferInv

-----------------------------------------------------------------------------
LEMMA ServerStepMoves ==
    ASSUME TransferInv, NEW c \in Conn, ServerStep(c) \/ Fail(c)
    PROVE  Moves(c)
BY AcceptMoves, ReadTokenMoves, ReadRequestMoves, LoadSettingsMoves, CheckFollowerMoves,
   AcquireSlotMoves, CheckLimitMoves, CheckPathMoves, SendChunkMoves, EndStreamMoves,
   FailMoves, PanicMoves, AbandonMoves, ReturnMoves, DrainMoves, TimeOutMoves
   DEF ServerStep

LEMMA ClientStepMoves ==
    ASSUME TransferInv, NEW c \in Conn,
           ClientStep(c) \/ CancelDownload(c) \/ LoseConnection(c)
    PROVE  Moves(c)
BY RegisterMoves, ConnectedMoves, WriteTokenMoves, WriteRequestMoves, ReadStatusMoves,
   LoopTopMoves, ReadChunkMoves, CheckFileMoves, ClientFailsMoves, CancelDownloadMoves,
   LoseConnectionMoves DEF ClientStep

LEMMA InitInv == TransferInit => TransferInv
<1> SUFFICES ASSUME TransferInit PROVE TransferInv
    OBVIOUS
<1>1. DefaultSettings \in ShareSettings
    BY DEF DefaultSettings, ShareSettings
<1>2. TransferTypeOK
    BY <1>1, TransferAssumption DEF TransferInit, TransferTypeOK, NoServer, Server,
       ServerPhase, Silent, Wire, Idle, Client, ClientPhase, Ended
<1>3. \A c \in Conn : ConnSound(c)
    BY DEF TransferInit, ConnSound, ServerSound, WireSound, ClientSound, ReadOut, Past,
       NoServer, Silent, Idle
<1>4. Holders = {} /\ \A n \in Nat : Early(n) = {}
    BY DEF TransferInit, Holders, Early, Counted, NoServer
<1>5. SlotsSound
    BY <1>4, FS_EmptySet DEF TransferInit, SlotsSound, SlotsAreHeld, Holders
<1> QED
    BY <1>2, <1>3, <1>5 DEF TransferInv

LEMMA NextInv == TransferInv /\ [TransferNext]_vars => TransferInv'
<1> SUFFICES ASSUME TransferInv, [TransferNext]_vars PROVE TransferInv'
    OBVIOUS
<1>0. Rest
    BY DEF TransferInv, TransferTypeOK, Rest
<1>1. ASSUME NEW slug \in Slug, NEW new \in Saved, SaveShareSettings(slug, new)
      PROVE  TransferInv'
    <2>1. Rest'
        BY <1>0, <1>1, TransferAssumption DEF SaveShareSettings, Change, Rest, client
    <2> QED
        BY <1>1, <2>1, QuietKeepsInv DEF SaveShareSettings, client
<1>2. ASSUME NEW new \in SUBSET Npub, SaveContacts(new)
      PROVE  TransferInv'
    <2>1. Rest'
        BY <1>0, <1>2, TransferAssumption DEF SaveContacts, Change, Rest, client
    <2> QED
        BY <1>2, <2>1, QuietKeepsInv DEF SaveContacts, client
<1>3. ASSUME NEW c \in Conn, NEW a \in Asked[c], RequestDownload(c, a)
      PROVE  TransferInv'
    BY <1>3, RequestDownloadMoves, MovesKeepInv
<1>4. ASSUME NEW c \in Conn, ServerStep(c) \/ Fail(c)
      PROVE  TransferInv'
    BY <1>4, ServerStepMoves, MovesKeepInv
<1>5. ASSUME NEW c \in Conn, ClientStep(c) \/ CancelDownload(c) \/ LoseConnection(c)
      PROVE  TransferInv'
    BY <1>5, ClientStepMoves, MovesKeepInv
<1>6. CASE UNCHANGED vars
    BY <1>0, <1>6, QuietKeepsInv DEF vars, server, client, Rest
<1> QED
    BY <1>1, <1>2, <1>3, <1>4, <1>5, <1>6 DEF TransferNext

LEMMA Invariant == TransferSpec => []TransferInv
BY InitInv, NextInv, PTL DEF TransferSpec

-----------------------------------------------------------------------------
(* Every reachable state is of the model's types; that the counter is never  *)
(* negative, which release_slot relies on, is the part that is not obvious.  *)
THEOREM TransferTypeCorrect == TransferSpec => []TransferTypeOK
<1>1. TransferInv => TransferTypeOK
    BY DEF TransferInv
<1> QED
    BY <1>1, Invariant, PTL

(* active_downloads counts exactly the requests that hold a slot, however    *)
(* many there are and whichever way each of them ends.                      *)
THEOREM SlotsAreExact == TransferSpec => []SlotsAreHeld
<1>1. TransferInv => SlotsAreHeld
    BY DEF TransferInv, SlotsSound
<1> QED
    BY <1>1, Invariant, PTL

(* No more than `limit` of the requests in progress were admitted under that *)
(* limit or a lower one, whatever the settings are changed to meanwhile.     *)
THEOREM LimitsHold == TransferSpec => []LimitHolds
<1>1. ASSUME TransferInv PROVE LimitHolds
    <2> SUFFICES ASSUME NEW n \in Nat PROVE Cardinality(Admitted(n)) <= n
        BY <1>1 DEF LimitHolds, TransferInv, TransferTypeOK, Server, ShareSettings
    <2>1. Admitted(n) \subseteq Early(n)
        <3> SUFFICES ASSUME NEW c \in Admitted(n) PROVE c \in Early(n)
            OBVIOUS
        <3>1. /\ c \in Conn /\ srv[c].guard /\ srv[c].settings.limit <= n
              /\ ServerSound(c) /\ srv[c] \in Server
            BY <1>1 DEF Admitted, TransferInv, TransferTypeOK, ConnSound
        <3> QED
            BY <3>1 DEF ServerSound, Server, Early, Counted
    <2>2. Cardinality(Admitted(n)) <= Cardinality(Early(n)) /\ Cardinality(Admitted(n)) \in Nat
        BY <2>1, HoldersFinite, FS_Subset, FS_CardinalityType
    <2>3. Cardinality(Early(n)) <= n /\ Cardinality(Early(n)) \in Nat
        BY <1>1, HoldersFinite DEF TransferInv, SlotsSound
    <2> QED
        BY <2>2, <2>3
<1> QED
    BY <1>1, Invariant, PTL

(* A file is offered only on a token minted for the node that is connected,  *)
(* in an enabled collection and for a path that its settings allow.          *)
THEOREM ServesOnlyAdmitted == TransferSpec => []OnlyAdmittedAreServed
<1>1. TransferInv => OnlyAdmittedAreServed
    BY DEF TransferInv, ConnSound, WireSound, Vetted, TokenAdmits, IsAllowedPath,
       OnlyAdmittedAreServed
<1> QED
    BY <1>1, Invariant, PTL

(* What a client calls finished is the whole file, unless it expected no     *)
(* hash and the sender's stream ended early.                                *)
THEOREM FinishedIsWhole == TransferSpec => []DoneIsWhole
<1>1. TransferInv => DoneIsWhole
    BY DEF TransferInv, ConnSound, ClientSound, ReadOut, DoneIsWhole
<1> QED
    BY <1>1, Invariant, PTL

-----------------------------------------------------------------------------
(* Why a client failed: its connection was cut or kept long enough, or the   *)
(* server ended its stream with no response, or panicked before its end.     *)
Wordless(c) ==
    wire[c].fin /\ wire[c].status = "none" /\ srv[c].phase \in {"return", "drain", "gone"}

Dropped(c) == ~wire[c].fin /\ srv[c].phase = "gone"

Heard(c) ==
    /\ cli[c].phase = "failed" => wire[c].by # "none" \/ Wordless(c) \/ Dropped(c)
    /\ wire[c].lost => wire[c].by # "none" \/ cli[c].phase \in Ended \/ Dropped(c)

LEMMA ServerKeepsHeard ==
    ASSUME TransferInv, NEW c \in Conn, Heard(c), ServerStep(c) \/ Fail(c)
    PROVE  Heard(c)'
<1>0. Known(c)
    BY Facts
<1>1. CASE Accept(c) \/ AcquireSlot(c) \/ Abandon(c) \/ Return(c)
  <2>1. wire' = wire /\ cli' = cli
      BY <1>1 DEF Accept, AcquireSlot, Abandon, Return, ServerOnly, client
  <2>2. /\ srv[c].phase \notin {"drain", "gone"}
        /\ srv[c].phase = "return" => srv'[c].phase = "drain"
      BY <1>0, <1>1 DEF Known, TypedAt, Server, Accept, AcquireSlot, Abandon, Return,
         ServerGoto
  <2> QED
      BY <2>1, <2>2 DEF Heard, Wordless, Dropped
<1>2. CASE ReadToken(c) \/ ReadRequest(c) \/ LoadSettings(c) \/ CheckFollower(c)
    BY <1>0, <1>2 DEF Known, ReadToken, ReadRequest, LoadSettings, CheckFollower, Refuse,
       EndSilently, ServerOnly, client, TypedAt, Wire, Heard, Wordless, Dropped
<1>3. CASE CheckLimit(c) \/ CheckPath(c) \/ SendChunk(c)
    BY <1>0, <1>3 DEF Known, CheckLimit, CheckPath, SendChunk, Refuse, ServerOnly, client,
       TypedAt, Wire, Heard, Wordless, Dropped
<1>4. CASE EndStream(c)
    BY <1>0, <1>4 DEF Known, EndStream, ServerOnly, client, TypedAt, Wire, ConnSound,
       ServerSound, Heard, Wordless, Dropped
<1>5. CASE Fail(c)
    BY <1>0, <1>5 DEF Known, Fail, EndSilently, ServerOnly, client, TypedAt, Wire,
       Heard, Wordless, Dropped
<1>6. CASE Panic(c)
  <2>1. cli' = cli /\ srv[c].phase = "stream" /\ srv'[c].phase = "gone"
      BY <1>0, <1>6 DEF Known, TypedAt, Server, Panic, ServerOnly, client
  <2>2. wire'[c].by = wire[c].by /\ wire'[c].fin = wire[c].fin
      BY <1>0, <1>6 DEF Known, TypedAt, Wire, Panic
  <2>3. ~wire[c].fin
      BY <1>0, <2>1 DEF Known, ConnSound, ServerSound
  <2> QED
      BY <2>1, <2>2, <2>3 DEF Heard, Dropped
<1>7. CASE Drain(c)
  <2>1. cli' = cli /\ srv[c].phase = "drain" /\ srv'[c].phase = "gone" /\ Gone(c)
      BY <1>0, <1>7 DEF Known, TypedAt, Server, Drain, ServerGoto, ServerOnly, client
  <2>2. /\ wire'[c].by = wire[c].by /\ wire'[c].fin = wire[c].fin
        /\ wire'[c].status = wire[c].status
      BY <1>0, <1>7 DEF Known, TypedAt, Wire, Drain
  <2> QED
      BY <2>1, <2>2 DEF Gone, Heard, Wordless, Dropped
<1>8. CASE TimeOut(c)
  <2>1. wire'[c].by = "timeout"
      BY <1>0, <1>8 DEF Known, TypedAt, Wire, TimeOut
  <2> QED
      BY <2>1 DEF Heard
<1> QED
    BY <1>1, <1>2, <1>3, <1>4, <1>5, <1>6, <1>7, <1>8 DEF ServerStep

LEMMA ClientKeepsHeard ==
    ASSUME TransferInv, NEW c \in Conn, Heard(c),
           ClientStep(c) \/ CancelDownload(c) \/ LoseConnection(c)
    PROVE  Heard(c)'
<1>0. Known(c)
    BY Facts
<1>1. CASE Register(c)
  <2>1. cli[c].phase = "asked" /\ cli'[c].phase = "connect" /\ wire' = wire
      BY <1>0, <1>1 DEF Known, TypedAt, Client, Register
  <2>2. srv[c].phase = "none"
      BY <1>0, <2>1 DEF Known, ConnSound, ClientSound
  <2> QED
      BY <2>1, <2>2 DEF Heard, Dropped, Ended
<1>2. CASE Connected(c) \/ ReadChunk(c)
  <2>1. /\ srv' = srv /\ wire' = wire
        /\ cli[c].phase \notin Ended /\ cli'[c].phase # "failed"
      BY <1>0, <1>2 DEF Known, TypedAt, Client, Ended, Connected, ReadChunk, ClientGoto
  <2> QED
      BY <2>1 DEF Heard, Wordless, Dropped
<1>3. CASE ClientFails(c)
  <2>1. /\ srv' = srv /\ wire' = wire /\ wire[c].lost
        /\ cli[c].phase \notin Ended /\ cli'[c].phase = "failed"
      BY <1>0, <1>3 DEF Known, TypedAt, Client, Ended, ClientFails, ClientGoto
  <2> QED
      BY <2>1 DEF Heard, Wordless, Dropped
<1>4. ASSUME NEW phase \in {"token", "request"}, NEW next \in {"request", "status"},
             WriteFrame(c, phase, next)
      PROVE  Heard(c)'
    <2>1. /\ wire'[c].by = wire[c].by /\ wire'[c].lost = wire[c].lost
          /\ wire'[c].fin = wire[c].fin /\ wire'[c].status = wire[c].status
        BY <1>0, <1>4 DEF Known, WriteFrame, TypedAt, Wire
    <2>2. srv' = srv /\ cli[c].phase \notin Ended /\ cli'[c].phase # "failed"
        BY <1>0, <1>4 DEF Known, WriteFrame, ClientGoto, TypedAt, Client, Ended
    <2> QED
        BY <2>1, <2>2 DEF Heard, Wordless, Dropped
<1>5. CASE ReadStatus(c)
  <2>1. srv' = srv /\ wire' = wire /\ cli[c].phase \notin Ended
      BY <1>5 DEF ReadStatus, Finish, Ended
  <2>2. \/ cli'[c].phase # "failed"
        \/ wire[c].status = "none" /\ wire[c].fin
      BY <1>0, <1>5 DEF Known, TypedAt, Client, ReadStatus, Finish, ClientGoto
  <2>3. wire[c].fin => srv[c].phase \in {"return", "drain", "gone"}
      BY <1>0 DEF Known, ConnSound, ServerSound, WireSound
  <2> QED
      BY <2>1, <2>2, <2>3 DEF Heard, Wordless, Dropped
<1>6. CASE LoopTop(c) \/ CheckFile(c)
  <2>1. /\ srv' = srv /\ wire' = wire
        /\ cli[c].phase \notin Ended /\ cli'[c].phase # "failed"
      BY <1>0, <1>6 DEF Known, TypedAt, Client, Ended, LoopTop, CheckFile, Finish, ClientGoto
  <2> QED
      BY <2>1 DEF Heard, Wordless, Dropped
<1>7. CASE CancelDownload(c)
    BY <1>7 DEF CancelDownload, Heard, Wordless, Dropped
<1>8. CASE LoseConnection(c)
  <2>1. wire'[c].by = "cut"
      BY <1>0, <1>8 DEF Known, TypedAt, Wire, LoseConnection
  <2> QED
      BY <2>1 DEF Heard
<1> QED
    BY <1>1, <1>2, <1>3, <1>4, <1>5, <1>6, <1>7, <1>8 DEF ClientStep, WriteToken, WriteRequest

LEMMA OthersHeard ==
    ASSUME TransferInv, NEW c \in Conn, Moves(c), Heard(c)', NEW d \in Conn, Heard(d)
    PROVE  Heard(d)'
<1>1. CASE d = c
    BY <1>1
<1>2. CASE d # c
    BY <1>2, OthersStay DEF Moves, Heard, Wordless, Dropped
<1> QED
    BY <1>1, <1>2

LEMMA NextHeard ==
    ASSUME TransferInv, \A c \in Conn : Heard(c), [TransferNext]_vars, NEW d \in Conn
    PROVE  Heard(d)'
<1>1. ASSUME NEW slug \in Slug, NEW new \in Saved, SaveShareSettings(slug, new)
      PROVE  Heard(d)'
    BY <1>1 DEF SaveShareSettings, client, Heard, Wordless, Dropped
<1>2. ASSUME NEW new \in SUBSET Npub, SaveContacts(new)
      PROVE  Heard(d)'
    BY <1>2 DEF SaveContacts, client, Heard, Wordless, Dropped
<1>3. ASSUME NEW c \in Conn, NEW a \in Asked[c], RequestDownload(c, a)
      PROVE  Heard(d)'
    <2>1. Known(c)
        BY Facts
    <2>2. Heard(c)'
        BY <1>3, <2>1 DEF Known, RequestDownload, ClientGoto, TypedAt, Client, Ended,
           Heard, Wordless, Dropped
    <2> QED
        BY <1>3, <2>2, RequestDownloadMoves, OthersHeard
<1>4. ASSUME NEW c \in Conn, ServerStep(c) \/ Fail(c)
      PROVE  Heard(d)'
    BY <1>4, ServerStepMoves, ServerKeepsHeard, OthersHeard
<1>5. ASSUME NEW c \in Conn, ClientStep(c) \/ CancelDownload(c) \/ LoseConnection(c)
      PROVE  Heard(d)'
    BY <1>5, ClientStepMoves, ClientKeepsHeard, OthersHeard
<1>6. CASE UNCHANGED vars
    BY <1>6 DEF vars, client, Heard, Wordless, Dropped
<1> QED
    BY <1>1, <1>2, <1>3, <1>4, <1>5, <1>6 DEF TransferNext

(* A client that waits for a response which the server has written to its     *)
(* end fails only where its connection was cut, or five seconds ran out.     *)
THEOREM ResponsesAreHeard == TransferSpec => []ResponseIsHeard
<1> DEFINE AllHeard == \A c \in Conn : Heard(c)
<1>1. TransferInit => AllHeard
    BY DEF TransferInit, Silent, Idle, Heard
<1>2. TransferInv /\ AllHeard /\ [TransferNext]_vars => AllHeard'
    BY NextHeard
<1>3. AllHeard => ResponseIsHeard
  <2> SUFFICES ASSUME AllHeard, NEW c \in Conn, Answered(c), cli[c].phase = "failed"
               PROVE  wire[c].by # "none"
      BY DEF ResponseIsHeard
  <2>1. wire[c].fin /\ wire[c].status # "none"
      BY DEF Answered
  <2> QED
      BY <2>1 DEF Heard, Wordless, Dropped
<1> QED
    BY <1>1, <1>2, <1>3, Invariant, PTL DEF TransferSpec

-----------------------------------------------------------------------------
(* A download whose cancel came before the last look at it, from then on.    *)
Heeding(c) ==
    /\ c \in signalled
    /\ cli[c].phase \in BeforeTheEnd \cup (Ended \ {"done"})

LEMMA OwnStepHeeds ==
    ASSUME TransferInv, NEW c \in Conn, Heeding(c), ClientStep(c) \/ CancelDownload(c)
    PROVE  Heeding(c)'
<1>0. Known(c)
    BY Facts
<1>1. CASE Register(c) \/ Connected(c) \/ ReadChunk(c) \/ ClientFails(c)
    BY <1>0, <1>1 DEF Known, Register, Connected, ReadChunk, ClientFails, ClientGoto, TypedAt,
       Client, BeforeTheEnd, Ended, Heeding
<1>2. CASE WriteToken(c) \/ WriteRequest(c)
    BY <1>0, <1>2 DEF Known, WriteToken, WriteRequest, WriteFrame, ClientGoto, TypedAt, Client,
       BeforeTheEnd, Ended, Heeding
<1>3. CASE ReadStatus(c) \/ LoopTop(c)
    BY <1>0, <1>3 DEF Known, ReadStatus, LoopTop, Finish, ClientGoto, TypedAt, Client,
       BeforeTheEnd, Ended, Heeding
<1>4. CASE CheckFile(c)
    BY <1>4 DEF CheckFile, BeforeTheEnd, Ended, Heeding
<1>5. CASE CancelDownload(c)
    BY <1>5 DEF CancelDownload, Heeding
<1> QED
    BY <1>1, <1>2, <1>3, <1>4, <1>5 DEF ClientStep

LEMMA NextHeeds ==
    ASSUME TransferInv, NEW c \in Conn, Heeding(c), [TransferNext]_vars
    PROVE  Heeding(c)'
<1>0. cli \in [Conn -> Client]
    BY DEF TransferInv, TransferTypeOK
<1>1. CASE \/ \E slug \in Slug, new \in Saved : SaveShareSettings(slug, new)
           \/ \E new \in SUBSET Npub : SaveContacts(new)
           \/ UNCHANGED vars
    BY <1>1 DEF SaveShareSettings, SaveContacts, vars, client, Heeding
<1>2. ASSUME NEW d \in Conn, NEW a \in Asked[d], RequestDownload(d, a)
      PROVE  Heeding(c)'
    BY <1>0, <1>2 DEF RequestDownload, ClientGoto, BeforeTheEnd, Ended, Heeding
<1>3. ASSUME NEW d \in Conn, ServerStep(d) \/ Fail(d) \/ LoseConnection(d)
      PROVE  Heeding(c)'
    BY <1>3 DEF ServerStep, Accept, ReadToken, ReadRequest, LoadSettings, CheckFollower,
       AcquireSlot, CheckLimit, CheckPath, SendChunk, EndStream, Panic, Abandon, Return, Drain,
       TimeOut, Fail, LoseConnection, ServerOnly, client, Heeding
<1>4. ASSUME NEW d \in Conn, d # c, ClientStep(d) \/ CancelDownload(d)
      PROVE  Heeding(c)'
    <2>1. cli'[c] = cli[c]
        BY <1>4, ClientStepMoves, OthersStay DEF Moves
    <2>2. signalled \subseteq signalled'
        BY <1>4 DEF ClientStep, Register, Connected, WriteToken, WriteRequest, WriteFrame,
           ReadStatus, LoopTop, ReadChunk, CheckFile, ClientFails, CancelDownload, Finish
    <2> QED
        BY <2>1, <2>2 DEF Heeding
<1>5. ASSUME ClientStep(c) \/ CancelDownload(c)
      PROVE  Heeding(c)'
    BY <1>5, OwnStepHeeds
<1> QED
    BY <1>1, <1>2, <1>3, <1>4, <1>5 DEF TransferNext

(* A cancel that is taken before the client's last look at it never ends in  *)
(* a saved file.                                                            *)
THEOREM CancelsAreHeeded == TransferSpec => CancelIsHeeded
<1> SUFFICES ASSUME NEW c \in Conn
             PROVE  TransferSpec => [](c \in signalled /\ cli[c].phase \in BeforeTheEnd
                                        => [](cli[c].phase # "done"))
    BY DEF CancelIsHeeded
<1>1. c \in signalled /\ cli[c].phase \in BeforeTheEnd => Heeding(c)
    BY DEF Heeding
<1>2. TransferInv /\ Heeding(c) /\ [TransferNext]_vars => Heeding(c)'
    BY NextHeeds
<1>3. Heeding(c) => cli[c].phase # "done"
    BY DEF Heeding, BeforeTheEnd
<1> QED
    BY <1>1, <1>2, <1>3, Invariant, PTL DEF TransferSpec
=============================================================================
