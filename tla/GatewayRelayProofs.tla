------------------------ MODULE GatewayRelayProofs ------------------------
(***************************************************************************)
(* The gateway implements PacketRelay, for any devices, clients, servers   *)
(* and objects, if no two servers have one identity.                       *)
(*                                                                         *)
(* The packets of a conversation wait in two buffers: behind the GwStream  *)
(* of their Key, and before them behind the ServerStream it is tied to.    *)
(* RelayInv says that they wait nowhere else, in order, and that all those *)
(* after the oldest one still wait.                                        *)
(***************************************************************************)
EXTENDS GatewayProofs, SequenceTheorems

\* In the buffer the packets of every conversation are in order.
Ordered(q) ==
    \A i, j \in DOMAIN q : i < j /\ q[i].conv = q[j].conv => q[i].n < q[j].n

\* A GwStream buffers packets of its own Key only.
QueuedAtHome ==
    \A g \in GwStreams, p \in Packet : Holds(gw_buffer[g], p) =>
        stream_store[Key(p.conv)] = g /\ p.n <= accepted[p.conv]

\* A ServerStream that can send has packets only of GwStreams tied to it.
SentFromHome ==
    \A s \in ServerStreams, p \in Packet :
        link_state[s] # "kLinkError" /\ Holds(out_buffer[s], p) =>
            /\ stream_store[Key(p.conv)] # NoGwStream
            /\ server_stream[stream_store[Key(p.conv)]] = s
            /\ p.n <= accepted[p.conv]

\* The packets of a conversation wait in order, in and between the buffers.
InOrder ==
    /\ \A g \in GwStreams : Ordered(gw_buffer[g])
    /\ \A s \in ServerStreams : link_state[s] # "kLinkError" => Ordered(out_buffer[s])
    /\ \A g \in GwStreams, s \in ServerStreams, p, q \in Packet :
           /\ link_state[s] # "kLinkError"
           /\ Holds(out_buffer[s], p) /\ Holds(gw_buffer[g], q) /\ p.conv = q.conv
           => p.n < q.n

\* Whatever came in after a packet that waits still waits.
NoGaps ==
    \A conv \in Conversations : \A n \in Waiting(conv) :
        \A m \in n..accepted[conv] : m \in Waiting(conv)

BufferInv == QueuedAtHome /\ SentFromHome /\ InOrder

RelayInv == BufferInv /\ NoGaps

----------------------------------------------------------------------------
(* Buffers.                                                                *)

\* What a buffer holds is a packet.
LEMMA HoldsPacket ==
    ASSUME NEW q \in Seq(Packet), NEW x, Holds(q, x)
    PROVE  x \in Packet
BY DEF Holds

\* A packet at the end.
LEMMA HoldsAppend ==
    ASSUME NEW q \in Seq(Packet), NEW p \in Packet, NEW x
    PROVE  Holds(Append(q, p), x) <=> Holds(q, x) \/ x = p
<1>1. /\ DOMAIN Append(q, p) = DOMAIN q \cup {Len(q) + 1}
      /\ \A i \in DOMAIN q : Append(q, p)[i] = q[i]
      /\ Append(q, p)[Len(q) + 1] = p
  OBVIOUS
<1>. QED  BY ONLY <1>1 DEF Holds

\* A packet taken from the front.
LEMMA HoldsTail ==
    ASSUME NEW q \in Seq(Packet), q # <<>>, NEW x
    PROVE  Holds(q, x) <=> x = Head(q) \/ Holds(Tail(q), x)
<1>1. /\ Len(q) \in Nat \ {0} /\ DOMAIN q = 1..Len(q)
      /\ DOMAIN Tail(q) = 1..(Len(q) - 1)
      /\ \A i \in 1..(Len(q) - 1) : Tail(q)[i] = q[i + 1]
      /\ Head(q) = q[1]
  OBVIOUS
<1>2. ASSUME NEW i \in DOMAIN q, q[i] = x PROVE x = Head(q) \/ Holds(Tail(q), x)
  <2>1. CASE i = 1
    BY <1>1, <1>2, <2>1
  <2>2. CASE i # 1
    <3>1. i - 1 \in DOMAIN Tail(q) /\ Tail(q)[i - 1] = q[i]
      BY <1>1, <2>2
    <3>. QED  BY <1>2, <3>1 DEF Holds
  <2>. QED  BY <2>1, <2>2
<1>3. ASSUME NEW i \in DOMAIN Tail(q), Tail(q)[i] = x PROVE Holds(q, x)
  <2>1. i + 1 \in DOMAIN q /\ q[i + 1] = x
    BY <1>1, <1>3
  <2>. QED  BY <2>1 DEF Holds
<1>4. x = Head(q) => Holds(q, x)
  <2>1. 1 \in DOMAIN q
    BY <1>1
  <2>. QED  BY <1>1, <2>1 DEF Holds
<1>. QED  BY <1>2, <1>3, <1>4 DEF Holds

\* A packet at the end keeps the order if it is later than those before it.
LEMMA OrderedAppend ==
    ASSUME NEW q \in Seq(Packet), NEW p \in Packet, Ordered(q),
           \A x \in Packet : Holds(q, x) /\ x.conv = p.conv => x.n < p.n
    PROVE  Ordered(Append(q, p))
<1>1. /\ Len(q) \in Nat /\ DOMAIN q = 1..Len(q)
      /\ DOMAIN Append(q, p) = 1..(Len(q) + 1)
      /\ \A i \in DOMAIN q : Append(q, p)[i] = q[i]
      /\ Append(q, p)[Len(q) + 1] = p
  OBVIOUS
<1>2. \A i \in DOMAIN q : q[i] \in Packet /\ Holds(q, q[i])
  BY DEF Holds
<1>. HIDE DEF Ordered
<1>3. ASSUME NEW i \in 1..(Len(q) + 1), NEW j \in 1..(Len(q) + 1), i < j,
             Append(q, p)[i].conv = Append(q, p)[j].conv
      PROVE  Append(q, p)[i].n < Append(q, p)[j].n
  <2>1. i \in DOMAIN q
    BY <1>1, <1>3
  <2>2. CASE j \in DOMAIN q
    BY <1>1, <1>3, <2>1, <2>2 DEF Ordered
  <2>3. CASE j = Len(q) + 1
    BY <1>1, <1>2, <1>3, <2>1, <2>3
  <2>. QED  BY <1>1, <2>2, <2>3
<1>. QED  BY <1>1, <1>3 DEF Ordered

\* The packet at the front is earlier than those after it.
LEMMA OrderedTail ==
    ASSUME NEW q \in Seq(Packet), q # <<>>, Ordered(q)
    PROVE  /\ Ordered(Tail(q))
           /\ \A x \in Packet :
                  Holds(Tail(q), x) /\ x.conv = Head(q).conv => Head(q).n < x.n
<1>1. /\ Len(q) \in Nat \ {0} /\ DOMAIN q = 1..Len(q)
      /\ DOMAIN Tail(q) = 1..(Len(q) - 1)
      /\ \A i \in 1..(Len(q) - 1) : Tail(q)[i] = q[i + 1]
      /\ Head(q) = q[1]
  OBVIOUS
<1>2. ASSUME NEW i \in DOMAIN Tail(q), NEW j \in DOMAIN Tail(q), i < j,
             Tail(q)[i].conv = Tail(q)[j].conv
      PROVE  Tail(q)[i].n < Tail(q)[j].n
  <2>1. i + 1 \in DOMAIN q /\ j + 1 \in DOMAIN q /\ i + 1 < j + 1
    BY <1>1, <1>2
  <2>2. Tail(q)[i] = q[i + 1] /\ Tail(q)[j] = q[j + 1]
    BY <1>1
  <2>. QED  BY <1>2, <2>1, <2>2 DEF Ordered
<1>3. ASSUME NEW i \in DOMAIN Tail(q), Tail(q)[i].conv = Head(q).conv
      PROVE  Head(q).n < Tail(q)[i].n
  <2>1. 1 \in DOMAIN q /\ i + 1 \in DOMAIN q /\ 1 < i + 1
    BY <1>1
  <2>2. Tail(q)[i] = q[i + 1]
    BY <1>1
  <2>. QED  BY <1>1, <1>3, <2>1, <2>2 DEF Ordered
<1>. QED  BY <1>2, <1>3 DEF Ordered, Holds

----------------------------------------------------------------------------
(* The steps of PacketRelay, from what a step does to the packets waiting. *)

\* A packet that comes last does not change which one is the oldest.
LEMMA OldestOfMore ==
    ASSUME NEW last \in Nat, NEW waiting \in SUBSET (1..last)
    PROVE  Oldest(waiting \cup {last + 1}, last + 1) = Oldest(waiting, last)
<1>. DEFINE more == waiting \cup {last + 1}
<1>1. CASE waiting = {}
  <2>1. \E n \in {last + 1} : \A m \in {last + 1} : n <= m
    OBVIOUS
  <2>. QED BY <1>1, <2>1 DEF Oldest
<1>2. CASE waiting # {}
  <2>. DEFINE IsLeast(n, S) == n \in S /\ \A m \in S : n <= m
  <2>1. PICK k \in waiting : k \in 1..last
    BY <1>2
  <2>2. ASSUME NEW n PROVE IsLeast(n, more) <=> IsLeast(n, waiting)
    <3>1. ASSUME IsLeast(n, more) PROVE IsLeast(n, waiting)
      <4>1. n <= k
        BY <2>1, <3>1
      <4>. QED  BY <3>1, <4>1, <2>1
    <3>2. ASSUME IsLeast(n, waiting) PROVE IsLeast(n, more)
      <4>1. n \in 1..last
        BY <3>2
      <4>. QED  BY <3>2, <4>1
    <3>. QED  BY <3>1, <3>2
  <2>. HIDE DEF IsLeast, more
  <2>3. (CHOOSE n : IsLeast(n, more)) = (CHOOSE n : IsLeast(n, waiting))
    BY <2>2, Zenon
  <2>4. more # {}
    BY DEF more
  <2>5. Oldest(more, last + 1) = CHOOSE n : IsLeast(n, more)
    BY <2>4 DEF Oldest, IsLeast
  <2>6. Oldest(waiting, last) = CHOOSE n : IsLeast(n, waiting)
    BY <1>2, Zenon DEF Oldest, IsLeast
  <2>. QED  BY <2>3, <2>5, <2>6, Zenon DEF more
<1>. QED  BY <1>1, <1>2

\* A number that is the least is the oldest.
LEMMA OldestIsLeast ==
    ASSUME NEW last \in Nat, NEW waiting \in SUBSET (1..last),
           NEW n \in waiting, \A m \in waiting : n <= m
    PROVE  Oldest(waiting, last) = n
<1>1. \A k \in waiting : (\A m \in waiting : k <= m) => k = n
  OBVIOUS
<1>. QED  BY <1>1 DEF Oldest

\* A number up to MaxPackets makes a packet.
LEMMA NumberedPacket ==
    ASSUME GatewayInv, NEW c \in Conversations
    PROVE  /\ accepted[c] \in 0..MaxPackets
           /\ \A n \in 1..accepted[c] : [conv |-> c, n |-> n] \in Packet
<1>1. accepted[c] \in 0..MaxPackets
  BY DEF GatewayInv, TypeOK
<1>2. ASSUME NEW n \in 1..accepted[c] PROVE n \in 1..MaxPackets
  BY <1>1, GatewayAssumption
<1>. QED  BY <1>1, <1>2 DEF Packet

\* With no packet taken in or gone, PacketRelay takes no step.
LEMMA RelayStutters ==
    ASSUME NoGaps, UNCHANGED <<accepted, sent>>,
           \A p \in Packet : Buffered(p)' <=> Buffered(p), GatewayInv
    PROVE  NoGaps' /\ UNCHANGED Relay!vars
<1>1. ASSUME NEW conv \in Conversations PROVE Waiting(conv)' = Waiting(conv)
  <2>1. \A n \in 1..accepted[conv] : [conv |-> conv, n |-> n] \in Packet
    BY NumberedPacket
  <2>. QED  BY <2>1 DEF Waiting
<1>2. NoGaps'
  BY <1>1 DEF NoGaps
<1>3. [conv \in Conversations |-> Oldest(Waiting(conv), accepted[conv])]' =
          [conv \in Conversations |-> Oldest(Waiting(conv), accepted[conv])]
  BY <1>1
<1>. QED  BY <1>2, <1>3 DEF Relay!vars

\* The next packet of a conversation is taken in.
LEMMA RelayAccepts ==
    ASSUME GatewayInv, NoGaps, NEW conv \in Conversations, NEW p \in Packet,
           p = [conv |-> conv, n |-> accepted[conv] + 1],
           accepted' = [accepted EXCEPT ![conv] = @ + 1], UNCHANGED sent,
           \A q \in Packet : Buffered(q)' <=> Buffered(q) \/ q = p
    PROVE  NoGaps' /\ Relay!Accept(conv)
<1>1. /\ accepted \in [Conversations -> 0..MaxPackets]
      /\ accepted[conv] + 1 \in 1..MaxPackets
  BY GatewayAssumption DEF GatewayInv, TypeOK, Packet
<1>2. ASSUME NEW c \in Conversations, c # conv PROVE Waiting(c)' = Waiting(c)
  <2>1. \A n \in 1..accepted[c] : [conv |-> c, n |-> n] \in Packet /\ [conv |-> c, n |-> n] # p
    BY <1>2, NumberedPacket
  <2>2. accepted'[c] = accepted[c]
    BY <1>1, <1>2
  <2>. QED  BY <2>1, <2>2 DEF Waiting
<1>3. Waiting(conv)' = Waiting(conv) \cup {accepted[conv] + 1}
  <2>1. \A n \in 1..(accepted[conv] + 1) : [conv |-> conv, n |-> n] \in Packet
    <3>1. \A n \in 1..(accepted[conv] + 1) : n \in 1..MaxPackets
      BY <1>1, GatewayAssumption
    <3>. QED  BY <3>1 DEF Packet
  <2>2. accepted'[conv] = accepted[conv] + 1
    BY <1>1
  <2>3. \A n \in 1..accepted[conv] : [conv |-> conv, n |-> n] # p
    BY <1>1
  <2>. QED  BY <1>1, <2>1, <2>2, <2>3 DEF Waiting
<1>4. /\ accepted'[conv] = accepted[conv] + 1
      /\ \A c \in Conversations : c # conv => accepted'[c] = accepted[c]
  BY <1>1
<1>5. NoGaps'
  <2>. SUFFICES ASSUME NEW c \in Conversations, NEW n \in Waiting(c)', NEW m \in n..accepted'[c]
                PROVE  m \in Waiting(c)'
    BY DEF NoGaps
  <2>1. CASE c # conv
    BY <1>2, <1>4, <2>1 DEF NoGaps
  <2>2. CASE c = conv /\ n = accepted[conv] + 1
    BY <1>1, <1>3, <1>4, <2>2
  <2>3. CASE c = conv /\ n \in Waiting(conv)
    <3>1. n \in 1..accepted[conv]
      BY <2>3 DEF Waiting
    <3>. QED  BY <1>1, <1>3, <1>4, <2>3, <3>1 DEF NoGaps
  <2>. QED  BY <1>3, <2>1, <2>2, <2>3
<1>6. ASSUME NEW c \in Conversations
      PROVE  Oldest(Waiting(c)', accepted'[c]) = Oldest(Waiting(c), accepted[c])
  <2>1. CASE c # conv
    BY <1>2, <1>4, <2>1
  <2>2. CASE c = conv
    <3>1. Waiting(conv) \in SUBSET (1..accepted[conv]) /\ accepted[conv] \in Nat
      BY <1>1 DEF Waiting
    <3>. QED  BY <1>3, <1>4, <2>2, <3>1, OldestOfMore
  <2>. QED  BY <2>1, <2>2
<1>7. [c \in Conversations |-> Oldest(Waiting(c), accepted[c])]' =
          [c \in Conversations |-> Oldest(Waiting(c), accepted[c])]
  BY <1>6
<1>. QED  BY <1>5, <1>7 DEF Relay!Accept

\* The oldest packet of a conversation goes out.
LEMMA RelayDelivers ==
    ASSUME GatewayInv, NoGaps, NEW p \in Packet, Buffered(p),
           p.n <= accepted[p.conv],
           \A q \in Packet : Buffered(q) /\ q.conv = p.conv => p.n <= q.n,
           \A q \in Packet : Buffered(q)' <=> Buffered(q) /\ q # p,
           sent' = [sent EXCEPT ![p.conv] = p.n], UNCHANGED accepted
    PROVE  NoGaps' /\ Relay!Deliver(p.conv)
<1>. DEFINE conv == p.conv
            next(c) == Oldest(Waiting(c), accepted[c])
<1>1. /\ accepted \in [Conversations -> 0..MaxPackets]
      /\ conv \in Conversations /\ p.n \in 1..MaxPackets
      /\ p = [conv |-> conv, n |-> p.n]
  BY DEF GatewayInv, TypeOK, Packet
<1>2. \A c \in Conversations : \A n \in 1..accepted[c] : [conv |-> c, n |-> n] \in Packet
  BY NumberedPacket
<1>3. ASSUME NEW c \in Conversations, c # conv PROVE Waiting(c)' = Waiting(c)
  <2>1. \A n : [conv |-> c, n |-> n] # p
    BY <1>1, <1>3
  <2>. QED  BY <1>2, <2>1 DEF Waiting
<1>4. Waiting(conv)' = Waiting(conv) \ {p.n}
  <2>1. \A n : [conv |-> conv, n |-> n] = p <=> n = p.n
    BY <1>1
  <2>. QED  BY <1>1, <1>2, <2>1 DEF Waiting
<1>5. p.n \in Waiting(conv) /\ \A m \in Waiting(conv) : p.n <= m
  <2>1. p.n \in Waiting(conv)
    BY <1>1 DEF Waiting
  <2>2. ASSUME NEW m \in Waiting(conv) PROVE p.n <= m
    <3>. DEFINE q == [conv |-> conv, n |-> m]
    <3>1. Buffered(q) /\ q \in Packet /\ q.conv = p.conv /\ q.n = m
      BY <1>1, <1>2 DEF Waiting
    <3>. QED  BY <3>1
  <2>. QED  BY <2>1, <2>2
<1>6. \A m \in p.n..accepted[conv] : m \in Waiting(conv)
  BY <1>1, <1>5 DEF NoGaps
<1>7. Waiting(conv) \in SUBSET (1..accepted[conv]) /\ accepted[conv] \in Nat
  BY <1>1 DEF Waiting
<1>8. next(conv) = p.n
  BY <1>5, <1>7, OldestIsLeast
<1>9. NoGaps'
  <2>. SUFFICES ASSUME NEW c \in Conversations, NEW n \in Waiting(c)', NEW m \in n..accepted[c]
                PROVE  m \in Waiting(c)'
    BY DEF NoGaps
  <2>1. CASE c # conv
    BY <1>3, <2>1 DEF NoGaps
  <2>2. CASE c = conv
    BY <1>1, <1>4, <1>5, <1>6, <1>7, <2>2
  <2>. QED  BY <2>1, <2>2
<1>10. Oldest(Waiting(conv)', accepted[conv]) = p.n + 1
  <2>1. CASE p.n = accepted[conv]
    <3>1. Waiting(conv)' = {}
      BY <1>1, <1>4, <1>5, <1>7, <2>1
    <3>. QED  BY <2>1, <3>1 DEF Oldest
  <2>2. CASE p.n < accepted[conv]
    <3>1. /\ p.n + 1 \in Waiting(conv)'
          /\ Waiting(conv)' \in SUBSET (1..accepted[conv])
      BY <1>1, <1>4, <1>6, <1>7, <2>2
    <3>2. \A m \in Waiting(conv)' : p.n + 1 <= m
      BY <1>1, <1>4, <1>5, <1>7
    <3>. QED  BY <1>7, <3>1, <3>2, OldestIsLeast
  <2>. QED  BY <1>1, <2>1, <2>2
<1>11. [c \in Conversations |-> Oldest(Waiting(c), accepted[c])]' =
           [[c \in Conversations |-> Oldest(Waiting(c), accepted[c])]
               EXCEPT ![conv] = @ + 1]
  BY <1>1, <1>3, <1>8, <1>10
<1>. QED  BY <1>1, <1>8, <1>9, <1>11 DEF Relay!Deliver

\* The packets that wait in some conversations are lost.
LEMMA RelayLoses ==
    ASSUME GatewayInv, NoGaps, NEW convs \in SUBSET Conversations,
           \A q \in Packet : Buffered(q)' <=> Buffered(q) /\ q.conv \notin convs,
           UNCHANGED <<accepted, sent>>
    PROVE  NoGaps' /\ Relay!Lose(convs)
<1>1. \A c \in Conversations : \A n \in 1..accepted[c] : [conv |-> c, n |-> n] \in Packet
  BY NumberedPacket
<1>2. \A c \in Conversations : Waiting(c)' = IF c \in convs THEN {} ELSE Waiting(c)
  BY <1>1 DEF Waiting
<1>3. NoGaps'
  BY <1>2 DEF NoGaps
<1>4. ASSUME NEW c \in Conversations
      PROVE  Oldest(Waiting(c)', accepted[c]) =
                 IF c \in convs THEN accepted[c] + 1 ELSE Oldest(Waiting(c), accepted[c])
  <2>1. CASE c \in convs
    BY <1>2, <2>1 DEF Oldest
  <2>2. CASE c \notin convs
    BY <1>2, <2>2
  <2>. QED  BY <2>1, <2>2
<1>5. [c \in Conversations |-> Oldest(Waiting(c), accepted[c])]' =
          [conv \in Conversations |->
              IF conv \in convs THEN accepted[conv] + 1
              ELSE [c \in Conversations |-> Oldest(Waiting(c), accepted[c])][conv]]
  BY <1>4
<1>. QED  BY <1>3, <1>5 DEF Relay!Lose, Relay!Conversations, Conversations

----------------------------------------------------------------------------
(* What the steps do to the buffers.                                       *)

\* The conversation, the Key and the GwStream of a packet.
LEMMA Home ==
    ASSUME GatewayInv, NEW p \in Packet
    PROVE  /\ p.conv \in Conversations /\ p.n \in 1..MaxPackets
           /\ Key(p.conv) \in Keys
           /\ stream_store[Key(p.conv)] \in GwStreams \cup {NoGwStream}
           /\ accepted[p.conv] \in 0..MaxPackets
<1>1. p.conv \in Conversations /\ p.n \in 1..MaxPackets
  BY DEF Packet
<1>2. Key(p.conv) \in Keys
  BY <1>1, ConversationKey
<1>. QED  BY <1>1, <1>2 DEF GatewayInv, TypeOK

\* Streams are made, taken and linked without touching a packet.
LEMMA BuffersKept ==
    ASSUME Inv, GatewayInv, BufferInv,
           UNCHANGED <<stream_store, gw_buffer, out_buffer, accepted>>,
           \A s \in ServerStreams : link_state'[s] = "kLinkError" <=> link_state[s] = "kLinkError",
           \A g \in GwStreams : server_stream[g] # NoStream => server_stream'[g] = server_stream[g]
    PROVE  BufferInv' /\ \A p \in Packet : Buffered(p)' <=> Buffered(p)
<1>1. QueuedAtHome' /\ InOrder'
  BY DEF BufferInv, QueuedAtHome, InOrder
<1>2. SentFromHome'
  <2>. SUFFICES ASSUME NEW s \in ServerStreams, NEW p \in Packet,
                       link_state[s] # "kLinkError", Holds(out_buffer[s], p)
                PROVE  /\ stream_store[Key(p.conv)] # NoGwStream
                       /\ server_stream'[stream_store[Key(p.conv)]] = s
                       /\ p.n <= accepted[p.conv]
    BY DEF SentFromHome
  <2>1. /\ stream_store[Key(p.conv)] # NoGwStream
        /\ server_stream[stream_store[Key(p.conv)]] = s
        /\ p.n <= accepted[p.conv]
    BY DEF BufferInv, SentFromHome
  <2>. QED  BY <2>1, Home, ManagerAssumption
<1>3. \A p \in Packet : Buffered(p)' <=> Buffered(p)
  BY DEF Buffered
<1>. QED  BY <1>1, <1>2, <1>3 DEF BufferInv

\* The next packet of conv joins the buffer of the GwStream of its Key, which
\* was in the store or comes to it now.
LEMMA PacketQueued ==
    ASSUME Inv, GatewayInv, BufferInv, NEW conv \in Conversations, NEW g \in GwStreams,
           NEW p \in Packet, p = [conv |-> conv, n |-> accepted[conv] + 1],
           gw_buffer' = [gw_buffer EXCEPT ![g] = Append(@, p)],
           stream_store[Key(conv)] \in {g, NoGwStream}, stream_store'[Key(conv)] = g,
           \A k \in Keys : k # Key(conv) => stream_store'[k] = stream_store[k],
           accepted' = [accepted EXCEPT ![conv] = @ + 1],
           UNCHANGED <<out_buffer, server_stream, link_state>>
    PROVE  BufferInv' /\ \A q \in Packet : Buffered(q)' <=> Buffered(q) \/ q = p
<1>. USE GatewayAssumption
<1>1. /\ gw_buffer \in [GwStreams -> Seq(Packet)]
      /\ \A c \in Conversations : accepted[c] \in Nat
  BY DEF GatewayInv, TypeOK
<1>2. /\ accepted'[conv] = accepted[conv] + 1
      /\ \A c \in Conversations : c # conv => accepted'[c] = accepted[c]
  BY DEF GatewayInv, TypeOK
<1>3. \A h \in GwStreams : gw_buffer'[h] = IF h = g THEN Append(gw_buffer[g], p) ELSE gw_buffer[h]
  BY <1>1
<1>4. \A h \in GwStreams, q \in Packet :
          Holds(gw_buffer'[h], q) <=> Holds(gw_buffer[h], q) \/ (h = g /\ q = p)
  BY <1>1, <1>3, HoldsAppend
<1>5. ASSUME NEW q \in Packet, NEW h \in GwStreams, stream_store[Key(q.conv)] = h
      PROVE  stream_store'[Key(q.conv)] = h
  BY <1>5, Home
<1>6. ASSUME NEW q \in Packet, q.n <= accepted[q.conv]
      PROVE  q.n <= accepted'[q.conv] /\ (q.conv = conv => q.n < p.n)
  BY <1>1, <1>2, <1>6, Home
<1>7. QueuedAtHome'
  <2>. SUFFICES ASSUME NEW h \in GwStreams, NEW q \in Packet, Holds(gw_buffer'[h], q)
                PROVE  stream_store'[Key(q.conv)] = h /\ q.n <= accepted'[q.conv]
    BY DEF QueuedAtHome
  <2>1. CASE Holds(gw_buffer[h], q)
    BY <1>5, <1>6, <2>1 DEF BufferInv, QueuedAtHome
  <2>2. CASE h = g /\ q = p
    BY <1>1, <1>2, <2>2
  <2>. QED  BY <1>4, <2>1, <2>2
<1>8. ASSUME NEW s \in ServerStreams, NEW q \in Packet,
             link_state[s] # "kLinkError", Holds(out_buffer[s], q)
      PROVE  /\ stream_store'[Key(q.conv)] # NoGwStream
             /\ server_stream[stream_store'[Key(q.conv)]] = s
             /\ q.n <= accepted'[q.conv] /\ (q.conv = conv => q.n < p.n)
  <2>1. /\ stream_store[Key(q.conv)] \in GwStreams
        /\ server_stream[stream_store[Key(q.conv)]] = s
        /\ q.n <= accepted[q.conv]
    BY <1>8, Home DEF BufferInv, SentFromHome
  <2>. QED  BY <1>5, <1>6, <2>1
<1>9. SentFromHome'
  BY <1>8 DEF SentFromHome
<1>10. InOrder'
  <2>1. Ordered(gw_buffer'[g])
    <3>1. \A q \in Packet : Holds(gw_buffer[g], q) /\ q.conv = p.conv => q.n < p.n
      BY <1>6 DEF BufferInv, QueuedAtHome
    <3>. QED  BY <1>1, <1>3, <3>1, OrderedAppend DEF BufferInv, InOrder
  <2>2. \A h \in GwStreams : Ordered(gw_buffer'[h])
    BY <1>3, <2>1 DEF BufferInv, InOrder
  <2>3. ASSUME NEW h \in GwStreams, NEW s \in ServerStreams, NEW q \in Packet, NEW r \in Packet,
               link_state[s] # "kLinkError", Holds(out_buffer[s], q),
               Holds(gw_buffer'[h], r), q.conv = r.conv
        PROVE  q.n < r.n
    <3>1. CASE Holds(gw_buffer[h], r)
      BY <2>3, <3>1 DEF BufferInv, InOrder
    <3>2. CASE r = p
      BY <1>8, <2>3, <3>2
    <3>. QED  BY <1>4, <2>3, <3>1, <3>2
  <2>. QED  BY <2>2, <2>3 DEF BufferInv, InOrder
<1>11. \A q \in Packet : Buffered(q)' <=> Buffered(q) \/ q = p
  BY <1>4 DEF Buffered
<1>. QED  BY <1>7, <1>9, <1>10, <1>11 DEF BufferInv

\* The oldest packet of a GwStream joins the buffer of its ServerStream.
LEMMA PacketForwarded ==
    ASSUME Inv, GatewayInv, BufferInv, NEW g \in GwStreams, Forward(g)
    PROVE  BufferInv' /\ \A p \in Packet : Buffered(p)' <=> Buffered(p)
<1>. DEFINE s == server_stream[g]
            head == Head(gw_buffer[g])
<1>1. /\ s \in ServerStreams /\ link_state[s] # "kLinkError"
      /\ gw_buffer[g] \in Seq(Packet) /\ gw_buffer[g] # <<>> /\ out_buffer[s] \in Seq(Packet)
      /\ UNCHANGED <<stream_store, server_stream, link_state, accepted>>
  BY DEF Forward, managerVars, Inv, ManagerTypeOK, GatewayInv, TiedStreamsUsable, TypeOK
<1>2. /\ \A h \in GwStreams :
            gw_buffer'[h] = IF h = g THEN Tail(gw_buffer[g]) ELSE gw_buffer[h]
      /\ \A t \in ServerStreams :
            out_buffer'[t] = IF t = s THEN Append(out_buffer[s], head) ELSE out_buffer[t]
  BY DEF Forward, GatewayInv, TypeOK
<1>3. head \in Packet
  BY <1>1
<1>. HIDE DEF s, head
<1>4. Holds(gw_buffer[g], head)
  BY <1>1, HoldsTail DEF head
<1>5. /\ \A p : Holds(gw_buffer[g], p) <=> p = head \/ Holds(gw_buffer'[g], p)
      /\ \A p : Holds(out_buffer'[s], p) <=> Holds(out_buffer[s], p) \/ p = head
  BY <1>1, <1>2, <1>3, HoldsTail, HoldsAppend DEF head
<1>6. /\ stream_store[Key(head.conv)] = g /\ server_stream[g] = s
      /\ head.n <= accepted[head.conv]
  BY <1>3, <1>4 DEF BufferInv, QueuedAtHome, s
<1>7. QueuedAtHome'
  BY <1>1, <1>2, <1>5 DEF BufferInv, QueuedAtHome
<1>8. SentFromHome'
  <2>. SUFFICES ASSUME NEW t \in ServerStreams, NEW p \in Packet,
                       link_state[t] # "kLinkError", Holds(out_buffer'[t], p)
                PROVE  /\ stream_store[Key(p.conv)] # NoGwStream
                       /\ server_stream[stream_store[Key(p.conv)]] = t
                       /\ p.n <= accepted[p.conv]
    BY <1>1 DEF SentFromHome
  <2>1. CASE Holds(out_buffer[t], p)
    BY <2>1 DEF BufferInv, SentFromHome
  <2>2. CASE t = s /\ p = head
    BY <1>6, <2>2, GatewayAssumption
  <2>. QED  BY <1>2, <1>5, <2>1, <2>2
<1>9. /\ Ordered(gw_buffer'[g])
      /\ \A p \in Packet : Holds(gw_buffer'[g], p) /\ p.conv = head.conv => head.n < p.n
  BY <1>1, <1>2, OrderedTail DEF BufferInv, InOrder, head
<1>10. InOrder'
  <2>1. \A h \in GwStreams : Ordered(gw_buffer'[h])
    BY <1>2, <1>9 DEF BufferInv, InOrder
  <2>2. \A t \in ServerStreams : link_state[t] # "kLinkError" => Ordered(out_buffer'[t])
    <3>1. \A p \in Packet : Holds(out_buffer[s], p) /\ p.conv = head.conv => p.n < head.n
      BY <1>1, <1>3, <1>4 DEF BufferInv, InOrder
    <3>2. Ordered(Append(out_buffer[s], head))
      BY <1>1, <1>3, <3>1, OrderedAppend DEF BufferInv, InOrder
    <3>. QED  BY <1>2, <3>2 DEF BufferInv, InOrder
  <2>3. ASSUME NEW h \in GwStreams, NEW t \in ServerStreams, NEW p \in Packet, NEW q \in Packet,
               link_state[t] # "kLinkError", Holds(out_buffer'[t], p),
               Holds(gw_buffer'[h], q), p.conv = q.conv
        PROVE  p.n < q.n
    <3>1. Holds(gw_buffer[h], q)
      BY <1>2, <1>5, <2>3
    <3>2. CASE Holds(out_buffer[t], p)
      BY <2>3, <3>1, <3>2 DEF BufferInv, InOrder
    <3>3. CASE t = s /\ p = head
      <4>1. h = g
        BY <1>6, <2>3, <3>1, <3>3 DEF BufferInv, QueuedAtHome
      <4>. QED  BY <1>9, <2>3, <3>3, <4>1
    <3>. QED  BY <1>2, <1>5, <2>3, <3>2, <3>3
  <2>. QED  BY <1>1, <2>1, <2>2, <2>3 DEF InOrder
<1>11. ASSUME NEW p \in Packet PROVE Buffered(p)' <=> Buffered(p)
  <2>1. ASSUME NEW h \in GwStreams
        PROVE  Holds(gw_buffer[h], p) <=> Holds(gw_buffer'[h], p) \/ (h = g /\ p = head)
    BY <1>2, <1>5
  <2>2. ASSUME NEW t \in ServerStreams
        PROVE  Holds(out_buffer'[t], p) <=> Holds(out_buffer[t], p) \/ (t = s /\ p = head)
    BY <1>2, <1>5
  <2>. QED  BY <1>1, <2>1, <2>2 DEF Buffered, s
<1>. QED  BY <1>7, <1>8, <1>10, <1>11 DEF BufferInv

\* The oldest packet of a ServerStream is the oldest of its conversation, and
\* leaves the buffers for good.
LEMMA PacketSent ==
    ASSUME Inv, GatewayInv, BufferInv, NEW s \in ServerStreams, Send(s),
           NEW head, head = Head(out_buffer[s])
    PROVE  /\ BufferInv'
           /\ head \in Packet /\ Buffered(head) /\ head.n <= accepted[head.conv]
           /\ \A p \in Packet : Buffered(p) /\ p.conv = head.conv => head.n <= p.n
           /\ \A p \in Packet : Buffered(p)' <=> Buffered(p) /\ p # head
<1>1. /\ link_state[s] # "kLinkError"
      /\ out_buffer[s] \in Seq(Packet) /\ out_buffer[s] # <<>>
      /\ UNCHANGED <<stream_store, server_stream, link_state, accepted, gw_buffer>>
  BY DEF Send, managerVars, GatewayInv, TypeOK
<1>2. \A t \in ServerStreams :
          out_buffer'[t] = IF t = s THEN Tail(out_buffer[s]) ELSE out_buffer[t]
  BY DEF Send, GatewayInv, TypeOK
<1>3. head \in Packet
  BY <1>1
<1>4. \A p : Holds(out_buffer[s], p) <=> p = head \/ Holds(out_buffer'[s], p)
  BY <1>1, <1>2, HoldsTail
<1>5. /\ Ordered(out_buffer'[s])
      /\ \A p \in Packet : Holds(out_buffer'[s], p) /\ p.conv = head.conv => head.n < p.n
  BY <1>1, <1>2, OrderedTail DEF BufferInv, InOrder
<1>6. /\ stream_store[Key(head.conv)] # NoGwStream
      /\ server_stream[stream_store[Key(head.conv)]] = s
      /\ head.n <= accepted[head.conv]
  BY <1>1, <1>3, <1>4 DEF BufferInv, SentFromHome
<1>7. \A g \in GwStreams, p \in Packet :
          Holds(gw_buffer[g], p) /\ p.conv = head.conv => head.n < p.n
  BY <1>1, <1>3, <1>4 DEF BufferInv, InOrder
<1>8. ASSUME NEW t \in ServerStreams, NEW p \in Packet, link_state[t] # "kLinkError",
             Holds(out_buffer[t], p), p.conv = head.conv
      PROVE  t = s
  BY <1>6, <1>8 DEF BufferInv, SentFromHome
<1>9. QueuedAtHome'
  BY <1>1 DEF BufferInv, QueuedAtHome
<1>10. ASSUME NEW t \in ServerStreams, NEW p, Holds(out_buffer'[t], p)
       PROVE  Holds(out_buffer[t], p)
  BY <1>2, <1>4, <1>10
<1>11. SentFromHome'
  BY <1>1, <1>10 DEF BufferInv, SentFromHome
<1>12. InOrder'
  BY <1>1, <1>2, <1>5, <1>10 DEF BufferInv, InOrder
<1>13. Buffered(head)
  BY <1>1, <1>4 DEF Buffered
<1>14. ASSUME NEW p \in Packet, Buffered(p), p.conv = head.conv PROVE head.n <= p.n
  <2>1. head.n \in Nat /\ p.n \in Nat
    BY <1>3 DEF Packet
  <2>2. CASE \E g \in GwStreams : Holds(gw_buffer[g], p)
    BY <1>7, <1>14, <2>1, <2>2
  <2>3. CASE \E t \in ServerStreams : link_state[t] # "kLinkError" /\ Holds(out_buffer[t], p)
    BY <1>4, <1>5, <1>8, <1>14, <2>1, <2>3
  <2>. QED  BY <1>14, <2>2, <2>3 DEF Buffered
<1>15. ASSUME NEW p \in Packet PROVE Buffered(p)' <=> Buffered(p) /\ p # head
  <2>1. ASSUME NEW t \in ServerStreams, link_state[t] # "kLinkError"
        PROVE  Holds(out_buffer'[t], p) <=> Holds(out_buffer[t], p) /\ p # head
    <3>1. CASE t = s
      <4>1. head.n \in Nat
        BY <1>3 DEF Packet
      <4>2. ~Holds(out_buffer'[s], head)
        BY <1>3, <1>5, <4>1
      <4>. QED  BY <1>4, <3>1, <4>2
    <3>2. CASE t # s
      BY <1>2, <1>3, <1>8, <2>1, <3>2
    <3>. QED  BY <3>1, <3>2
  <2>2. ASSUME NEW g \in GwStreams, Holds(gw_buffer[g], p) PROVE p # head
    <3>1. head.n \in Nat
      BY <1>3 DEF Packet
    <3>. QED  BY <1>7, <2>2, <3>1
  <2>. QED  BY <1>1, <2>1, <2>2 DEF Buffered
<1>. QED  BY <1>3, <1>6, <1>9, <1>11, <1>12, <1>13, <1>14, <1>15 DEF BufferInv

\* The GwStreams of gs are erased with what they and the streams they were
\* tied to buffer; the packets of the others stay.
LEMMA PacketsErased ==
    ASSUME Inv, GatewayInv, BufferInv, NEW gs \in SUBSET GwStreams, NEW links,
           stream_store' = StoreWithout(gs),
           \A g \in GwStreams :
               /\ gw_buffer'[g] = IF g \in gs THEN <<>> ELSE gw_buffer[g]
               /\ g \notin gs => server_stream'[g] = server_stream[g]
               /\ g \in gs /\ server_stream[g] # NoStream =>
                      links[server_stream[g]] = "kLinkError",
           \A s \in ServerStreams :
               /\ link_state[s] = "kLinkError" => links[s] = "kLinkError"
               /\ links[s] = "kLinkError" /\ link_state[s] # "kLinkError" =>
                      \A g \in GwStreams : server_stream[g] = s => g \in gs,
           DestroyUnheld(links), out_buffer' = OutBufferOfLive, UNCHANGED accepted
    PROVE  /\ BufferInv'
           /\ \A p \in Packet :
                  Buffered(p)' <=> Buffered(p) /\ stream_store[Key(p.conv)] \notin gs
<1>. USE GatewayAssumption
<1>. DEFINE held(s) == \E g \in GwStreams : s = get_stream'[g] \/ s = server_stream'[g]
<1>1. \A s \in ServerStreams :
          /\ serves'[s] = IF held(s) THEN serves[s] ELSE NoServer
          /\ link_state'[s] = IF held(s) THEN links[s] ELSE "kUnlinked"
          /\ out_buffer'[s] = IF serves'[s] = NoServer THEN <<>> ELSE out_buffer[s]
  BY DEF DestroyUnheld, OutBufferOfLive
<1>2. \A k \in Keys : stream_store'[k] =
          IF stream_store[k] \in gs THEN NoGwStream ELSE stream_store[k]
  BY DEF StoreWithout
<1>3. ~\E x : Holds(<<>>, x)
  BY DEF Holds
<1>. HIDE DEF held
<1>4. ASSUME NEW s \in ServerStreams, NEW p \in Packet,
             link_state'[s] # "kLinkError", Holds(out_buffer'[s], p)
      PROVE  /\ link_state[s] # "kLinkError" /\ Holds(out_buffer[s], p)
             /\ stream_store[Key(p.conv)] \notin gs
  <2>1. held(s) /\ links[s] # "kLinkError" /\ out_buffer'[s] = out_buffer[s]
    BY <1>1, <1>3, <1>4
  <2>2. link_state[s] # "kLinkError"
    BY <2>1
  <2>3. server_stream[stream_store[Key(p.conv)]] = s
    BY <1>4, <2>1, <2>2 DEF BufferInv, SentFromHome
  <2>. QED  BY <1>4, <2>1, <2>2, <2>3, ManagerAssumption
<1>5. ASSUME NEW s \in ServerStreams, NEW p \in Packet, link_state[s] # "kLinkError",
             Holds(out_buffer[s], p), stream_store[Key(p.conv)] \notin gs
      PROVE  link_state'[s] # "kLinkError" /\ Holds(out_buffer'[s], p)
  <2>. DEFINE g == stream_store[Key(p.conv)]
  <2>1. g \in GwStreams /\ server_stream[g] = s
    BY <1>5, Home DEF BufferInv, SentFromHome
  <2>2. serves[s] # NoServer
    BY <2>1, ManagerAssumption
       DEF Inv, StreamInv, CallerStreamServesCaller, GatewayInv, StoreOwnsStreams, ActionInv
  <2>3. server_stream'[g] = s
    BY <1>5, <2>1
  <2>4. held(s)
    BY <2>1, <2>3 DEF held
  <2>5. links[s] # "kLinkError"
    BY <1>5, <2>1
  <2>. QED  BY <1>1, <1>5, <2>2, <2>4, <2>5
<1>6. ASSUME NEW g \in GwStreams, NEW p \in Packet
      PROVE  Holds(gw_buffer'[g], p) <=>
                 Holds(gw_buffer[g], p) /\ stream_store[Key(p.conv)] \notin gs
  <2>1. Holds(gw_buffer[g], p) => stream_store[Key(p.conv)] = g
    BY DEF BufferInv, QueuedAtHome
  <2>. QED  BY <1>3, <2>1
<1>7. QueuedAtHome'
  BY <1>2, <1>6, Home DEF BufferInv, QueuedAtHome
<1>8. SentFromHome'
  <2>. SUFFICES ASSUME NEW s \in ServerStreams, NEW p \in Packet,
                       link_state'[s] # "kLinkError", Holds(out_buffer'[s], p)
                PROVE  /\ stream_store'[Key(p.conv)] # NoGwStream
                       /\ server_stream'[stream_store'[Key(p.conv)]] = s
                       /\ p.n <= accepted[p.conv]
    BY DEF SentFromHome
  <2>. DEFINE g == stream_store[Key(p.conv)]
  <2>1. /\ g \in GwStreams /\ g \notin gs /\ server_stream[g] = s
        /\ p.n <= accepted[p.conv]
    BY <1>4, Home DEF BufferInv, SentFromHome
  <2>2. stream_store'[Key(p.conv)] = g
    BY <1>2, <2>1, Home
  <2>. QED  BY <2>1, <2>2
<1>9. InOrder'
  <2>1. Ordered(<<>>)
    BY DEF Ordered
  <2>2. \A g \in GwStreams : Ordered(gw_buffer'[g])
    BY <2>1 DEF BufferInv, InOrder
  <2>3. ASSUME NEW s \in ServerStreams, link_state'[s] # "kLinkError"
        PROVE  Ordered(out_buffer'[s])
    BY <1>1, <2>1, <2>3 DEF BufferInv, InOrder
  <2>4. ASSUME NEW g \in GwStreams, NEW s \in ServerStreams, NEW p \in Packet, NEW q \in Packet,
               link_state'[s] # "kLinkError", Holds(out_buffer'[s], p),
               Holds(gw_buffer'[g], q), p.conv = q.conv
        PROVE  p.n < q.n
    BY <1>4, <1>6, <2>4 DEF BufferInv, InOrder
  <2>. QED  BY <2>2, <2>3, <2>4 DEF InOrder
<1>10. \A p \in Packet : Buffered(p)' <=> Buffered(p) /\ stream_store[Key(p.conv)] \notin gs
  BY <1>4, <1>5, <1>6 DEF Buffered
<1>. QED  BY <1>7, <1>8, <1>9, <1>10 DEF BufferInv

----------------------------------------------------------------------------
(* What each action does to the packets that wait.                         *)

\* A GwStream that does not exist buffers nothing.
LEMMA GoneHoldNothing ==
    ASSUME GatewayInv, BufferInv, NEW g \in GwStreams, asked[g] = NoServer
    PROVE  gw_buffer[g] = <<>>
<1>1. ASSUME NEW i \in DOMAIN gw_buffer[g] PROVE FALSE
  <2>. DEFINE p == gw_buffer[g][i]
  <2>1. p \in Packet /\ Holds(gw_buffer[g], p)
    BY BufferedPackets DEF Holds
  <2>. HIDE DEF p
  <2>2. stream_store[Key(p.conv)] = g /\ Key(p.conv) \in Keys
    BY <2>1, Home DEF BufferInv, QueuedAtHome
  <2>. QED  BY <2>2, GatewayAssumption DEF GatewayInv, StoreOwnsStreams
<1>2. gw_buffer[g] \in Seq(Packet)
  BY DEF GatewayInv, TypeOK
<1>. QED  BY <1>1, <1>2

\* Input adds the next packet of its conversation.
LEMMA InputBuffers ==
    ASSUME Inv, GatewayInv, BufferInv, NEW conv \in Conversations, Input(conv),
           NEW p, p = [conv |-> conv, n |-> accepted[conv] + 1]
    PROVE  /\ p \in Packet /\ BufferInv'
           /\ \A q \in Packet : Buffered(q)' <=> Buffered(q) \/ q = p
           /\ accepted' = [accepted EXCEPT ![conv] = @ + 1] /\ UNCHANGED sent
<1>1. /\ accepted' = [accepted EXCEPT ![conv] = @ + 1] /\ UNCHANGED <<out_buffer, sent>>
      /\ WriteToOpenStream(conv, p) \/ WriteToNewStream(conv, p)
  BY DEF Input
<1>2. p \in Packet
  <2>1. accepted[conv] + 1 \in 1..MaxPackets
    BY GatewayAssumption DEF Input, GatewayInv, TypeOK
  <2>. QED  BY <2>1 DEF Packet
<1>3. PICK g \in GwStreams :
          /\ gw_buffer' = [gw_buffer EXCEPT ![g] = Append(@, p)]
          /\ stream_store[Key(conv)] \in {g, NoGwStream} /\ stream_store'[Key(conv)] = g
          /\ \A k \in Keys : k # Key(conv) => stream_store'[k] = stream_store[k]
          /\ UNCHANGED <<server_stream, link_state>>
  <2>1. CASE WriteToOpenStream(conv, p)
    <3>. DEFINE g == stream_store[Key(conv)]
    <3>1. g \in GwStreams
      BY <2>1, ConversationKey DEF WriteToOpenStream, GatewayInv, TypeOK
    <3>. QED  BY <2>1, <3>1 DEF WriteToOpenStream, managerVars
  <2>2. CASE WriteToNewStream(conv, p)
    <3>1. PICK g \in GwStreams :
              /\ GetStream(g, conv[3]) /\ stream_store[Key(conv)] = NoGwStream
              /\ stream_store' = [stream_store EXCEPT ![Key(conv)] = g]
              /\ gw_buffer' = [gw_buffer EXCEPT ![g] = <<p>>]
      BY <2>2 DEF WriteToNewStream
    <3>2. asked[g] = NoServer /\ UNCHANGED <<server_stream, link_state>>
      BY <3>1 DEF GetStream, GetStreamById, GetStreamByEndpoints, MakeStream
    <3>3. gw_buffer[g] = <<>>
      BY <3>2, GoneHoldNothing
    <3>4. Append(gw_buffer[g], p) = <<p>>
      BY <3>3
    <3>5. gw_buffer' = [gw_buffer EXCEPT ![g] = Append(@, p)]
      BY <3>1, <3>4
    <3>6. /\ stream_store'[Key(conv)] = g
          /\ \A k \in Keys : k # Key(conv) => stream_store'[k] = stream_store[k]
      BY <3>1, ConversationKey DEF GatewayInv, TypeOK
    <3>. QED  BY <3>1, <3>2, <3>5, <3>6
  <2>. QED  BY <1>1, <2>1, <2>2
<1>4. BufferInv' /\ \A q \in Packet : Buffered(q)' <=> Buffered(q) \/ q = p
  BY <1>1, <1>2, <1>3, PacketQueued
<1>. QED  BY <1>1, <1>2, <1>4

\* The steps that are not about packets.
OtherStep ==
    \/ \E g \in GwStreams : GetStreamStep(g) \/ TieStream(g)
    \/ \E s \in ServerStreams : OutData(s) \/ LinkChange(s)
    \/ \E id \in ServerIds : OtherServerAdded(id)
    \/ UNCHANGED vars

\* They leave the buffers alone, and fail no stream.
LEMMA OtherStepBuffers ==
    ASSUME Inv, GatewayInv, BufferInv, OtherStep
    PROVE  /\ BufferInv' /\ \A p \in Packet : Buffered(p)' <=> Buffered(p)
           /\ UNCHANGED <<accepted, sent>>
<1>1. UNCHANGED <<stream_store, gw_buffer, out_buffer, accepted, sent>>
  BY DEF OtherStep, GetStreamStep, TieStream, OutData, LinkChange, OtherServerAdded,
         streamVars, vars
<1>2. \A s \in ServerStreams :
          link_state'[s] = "kLinkError" <=> link_state[s] = "kLinkError"
  BY DEF OtherStep, GetStreamStep, CheckServerExists, RequestServer, GetServersResult,
         GetServersError, ReportError, MakeStream, TieStream, DeliverStream, OutData,
         LinkChange, LinkUp, LinkDown, OtherServerAdded, AetherAddServer, vars,
         managerVars, Inv, ManagerTypeOK
<1>3. \A g \in GwStreams : server_stream[g] # NoStream => server_stream'[g] = server_stream[g]
  BY DEF OtherStep, GetStreamStep, CheckServerExists, RequestServer, GetServersResult,
         GetServersError, ReportError, MakeStream, TieStream, DeliverStream, OutData,
         LinkChange, LinkUp, LinkDown, OtherServerAdded, AetherAddServer, vars,
         managerVars, Inv, ManagerTypeOK, ActionInv
<1>. QED  BY <1>1, <1>2, <1>3, BuffersKept

\* A GwStream that gets a failed stream is erased with what it buffers.
LEMMA TieFailedBuffers ==
    ASSUME Inv, GatewayInv, BufferInv, NEW g \in GwStreams, TieFailedStream(g)
    PROVE  /\ BufferInv' /\ UNCHANGED <<accepted, sent>>
           /\ \A p \in Packet :
                  Buffered(p)' <=> Buffered(p) /\ stream_store[Key(p.conv)] \notin {g}
<1>1. server_stream[g] = NoStream
  BY DEF TieFailedStream, DeliverToDestroyed, Inv, ManagerTypeOK, ActionInv
<1>2. /\ DestroyUnheld(link_state) /\ stream_store' = StoreWithout({g})
      /\ out_buffer' = OutBufferOfLive /\ UNCHANGED <<server_stream, accepted, sent>>
      /\ \A h \in GwStreams : gw_buffer'[h] = IF h \in {g} THEN <<>> ELSE gw_buffer[h]
  BY DEF TieFailedStream, DeliverToDestroyed, GatewayInv, TypeOK
<1>. QED  BY <1>1, <1>2, PacketsErased

\* A stream that fails takes the GwStreams tied to it along.
LEMMA StreamStateBuffers ==
    ASSUME Inv, GatewayInv, BufferInv, NEW s \in ServerStreams, StreamState(s),
           NEW gs, gs = {g \in GwStreams : server_stream[g] = s}
    PROVE  /\ BufferInv' /\ UNCHANGED <<accepted, sent>>
           /\ \A p \in Packet :
                  Buffered(p)' <=> Buffered(p) /\ stream_store[Key(p.conv)] \notin gs
<1>. DEFINE links == [link_state EXCEPT ![s] = "kLinkError"]
<1>1. /\ DestroyUnheld(links) /\ stream_store' = StoreWithout(gs)
      /\ out_buffer' = OutBufferOfLive /\ UNCHANGED <<accepted, sent>>
      /\ \A g \in GwStreams :
             /\ gw_buffer'[g] = IF g \in gs THEN <<>> ELSE gw_buffer[g]
             /\ g \notin gs => server_stream'[g] = server_stream[g]
  BY DEF StreamState, LinkError
<1>2. \A t \in ServerStreams : links[t] = IF t = s THEN "kLinkError" ELSE link_state[t]
  BY DEF Inv, ManagerTypeOK
<1>. HIDE DEF links
<1>. QED  BY <1>1, <1>2, PacketsErased

\* A restart empties every buffer.
LEMMA RestartBuffers ==
    ASSUME Restart
    PROVE  BufferInv' /\ (\A p \in Packet : ~Buffered(p)') /\ UNCHANGED <<accepted, sent>>
<1>1. /\ \A g \in GwStreams : gw_buffer'[g] = <<>>
      /\ \A s \in ServerStreams : out_buffer'[s] = <<>>
      /\ UNCHANGED <<accepted, sent>>
  BY DEF Restart
<1>2. ~(\E x : Holds(<<>>, x)) /\ Ordered(<<>>)
  BY DEF Holds, Ordered
<1>3. BufferInv'
  BY <1>1, <1>2 DEF BufferInv, QueuedAtHome, SentFromHome, InOrder
<1>. QED  BY <1>1, <1>2, <1>3 DEF Buffered

\* Every step keeps BufferInv; a packet leaves the buffers when it is sent, when
\* the stream of its own conversation fails, and in a restart.
LEMMA NextBuffers ==
    ASSUME Inv, GatewayInv, BufferInv, [Next]_vars
    PROVE  /\ BufferInv'
           /\ \A p \in Packet :
                  Buffered(p) /\ ~Buffered(p)' /\ sent'[p.conv] # p.n =>
                      \/ Restart
                      \/ \E g \in GwStreams :
                             stream_store[Key(p.conv)] = g /\ StreamFails(g)
<1>1. ASSUME NEW conv \in Conversations, Input(conv)
      PROVE  BufferInv' /\ \A p \in Packet : Buffered(p) => Buffered(p)'
  BY <1>1, InputBuffers
<1>2. CASE OtherStep
  BY <1>2, OtherStepBuffers
<1>3. ASSUME NEW g \in GwStreams, TieFailedStream(g)
      PROVE  /\ BufferInv'
             /\ \A p \in Packet : Buffered(p) /\ ~Buffered(p)' =>
                    stream_store[Key(p.conv)] = g /\ StreamFails(g)
  <2>1. StreamFails(g)
    <3>1. \E s \in ServerStreams : get_stream[g] = s
      BY <1>3 DEF TieFailedStream, DeliverToDestroyed, Inv, StreamInv, ResultServesRequest
    <3>. QED  BY <1>3, <3>1 DEF TieFailedStream, StreamFails
  <2>. QED  BY <1>3, <2>1, TieFailedBuffers
<1>4. ASSUME NEW g \in GwStreams, Forward(g)
      PROVE  BufferInv' /\ \A p \in Packet : Buffered(p) => Buffered(p)'
  BY <1>4, PacketForwarded
<1>5. ASSUME NEW s \in ServerStreams, Send(s)
      PROVE  /\ BufferInv'
             /\ \A p \in Packet : Buffered(p) /\ ~Buffered(p)' => sent'[p.conv] = p.n
  <2>. DEFINE head == Head(out_buffer[s])
  <2>1. /\ BufferInv' /\ head \in Packet
        /\ \A p \in Packet : Buffered(p)' <=> Buffered(p) /\ p # head
    BY <1>5, PacketSent
  <2>2. sent' = [sent EXCEPT ![head.conv] = head.n]
    BY <1>5 DEF Send
  <2>. HIDE DEF head
  <2>3. sent'[head.conv] = head.n
    BY <2>1, <2>2, Home DEF GatewayInv, TypeOK
  <2>. QED  BY <2>1, <2>3
<1>6. ASSUME NEW s \in ServerStreams, StreamState(s)
      PROVE  /\ BufferInv'
             /\ \A p \in Packet : Buffered(p) /\ ~Buffered(p)' =>
                    \E g \in GwStreams : stream_store[Key(p.conv)] = g /\ StreamFails(g)
  <2>. DEFINE gs == {g \in GwStreams : server_stream[g] = s}
  <2>1. /\ BufferInv'
        /\ \A p \in Packet :
               Buffered(p)' <=> Buffered(p) /\ stream_store[Key(p.conv)] \notin gs
    BY <1>6, StreamStateBuffers
  <2>2. \A g \in gs : g \in GwStreams /\ StreamFails(g)
    BY <1>6 DEF StreamFails
  <2>. HIDE DEF gs
  <2>. QED  BY <2>1, <2>2
<1>7. CASE Restart
  BY <1>7, RestartBuffers
<1>8. \/ \E conv \in Conversations : Input(conv)
      \/ OtherStep
      \/ \E g \in GwStreams : TieFailedStream(g) \/ Forward(g)
      \/ \E s \in ServerStreams : Send(s) \/ StreamState(s)
      \/ Restart
  BY DEF Next, OtherStep
<1>9. CASE \E conv \in Conversations : Input(conv)
  BY <1>1, <1>9
<1>10. CASE \E g \in GwStreams : TieFailedStream(g) \/ Forward(g)
  BY <1>3, <1>4, <1>10
<1>11. CASE \E s \in ServerStreams : Send(s) \/ StreamState(s)
  BY <1>5, <1>6, <1>11
<1>. QED  BY <1>2, <1>7, <1>8, <1>9, <1>10, <1>11

\* At first the buffers are empty.
LEMMA BufferInit == Init => BufferInv /\ \A p : ~Buffered(p)
<1>. SUFFICES ASSUME Init PROVE BufferInv /\ \A p : ~Buffered(p)
  OBVIOUS
<1>1. \A p : ~Buffered(p)
  BY DEF Init, Buffered, Holds
<1>2. BufferInv
  BY DEF Init, BufferInv, QueuedAtHome, SentFromHome, InOrder, Holds, Ordered
<1>. QED  BY <1>1, <1>2

\* A packet that the gateway has taken in is sent, or lost when the ServerStream
\* that its own conversation has open fails, or in a restart; no other failure
\* and no reopening loses it, also when identities collide (LocalPort, GwStream).
THEOREM PacketsLostByFailureOnly == Spec => LossNeedsFailure
<1>1. Init => BufferInv
  BY BufferInit
<1>2. Inv /\ GatewayInv /\ BufferInv /\ [Next]_vars
          => /\ BufferInv'
             /\ [\A packet \in Packet :
                    Buffered(packet) /\ ~Buffered(packet)' /\ sent'[packet.conv] # packet.n =>
                        \/ Restart
                        \/ \E g \in GwStreams :
                               stream_store[Key(packet.conv)] = g /\ StreamFails(g)]_vars
  BY NextBuffers
<1>. QED  BY <1>1, <1>2, GatewayInvariant, PTL DEF Spec, LossNeedsFailure

----------------------------------------------------------------------------
(* The refinement.                                                         *)

\* The erased GwStreams were made for one server, and so no conversation
\* with another one loses packets.
LEMMA LossesOfOneServer ==
    ASSUME IdentityInjective, Inv, GatewayInv, RelayInv, NEW gs \in SUBSET GwStreams,
           NEW k \in ServeKinds, \A g \in gs : asked[g] = k,
           \A p \in Packet :
               Buffered(p)' <=> Buffered(p) /\ stream_store[Key(p.conv)] \notin gs,
           UNCHANGED <<accepted, sent>>
    PROVE  NoGaps' /\ Relay!Next
<1>. DEFINE convs == {conv \in Conversations : stream_store[Key(conv)] \in gs}
<1>1. ASSUME NEW conv \in convs PROVE conv[3] = k
  <2>1. /\ Key(conv) \in Keys /\ Key(conv)[3] = Identity[conv[3]] /\ conv[3] \in ServeKinds
        /\ stream_store[Key(conv)] \in gs
    BY ConversationKey
  <2>2. Identity[asked[stream_store[Key(conv)]]] = Identity[conv[3]]
    BY <2>1, GatewayAssumption DEF GatewayInv, StoreOwnsStreams
  <2>. QED  BY <2>1, <2>2 DEF IdentityInjective
<1>2. \A p \in Packet : Buffered(p)' <=> Buffered(p) /\ p.conv \notin convs
  BY Home
<1>3. NoGaps' /\ Relay!Lose(convs)
  BY <1>2, RelayLoses DEF RelayInv
<1>4. convs \in SUBSET {conv \in Conversations : conv[3] = k}
  BY <1>1
<1>. QED  BY <1>3, <1>4 DEF Relay!Next, Relay!Conversations, Conversations

\* Every step of the gateway is one of PacketRelay, or none.
LEMMA NextIsRelayNext ==
    ASSUME IdentityInjective, Inv, GatewayInv, RelayInv, [Next]_vars
    PROVE  RelayInv' /\ [Relay!Next]_(Relay!vars)
<1>. BufferInv /\ BufferInv'
  BY NextBuffers DEF RelayInv
<1>1. ASSUME NEW conv \in Conversations, Input(conv) PROVE NoGaps' /\ Relay!Next
  <2>. DEFINE p == [conv |-> conv, n |-> accepted[conv] + 1]
  <2>1. /\ p \in Packet /\ \A q \in Packet : Buffered(q)' <=> Buffered(q) \/ q = p
        /\ accepted' = [accepted EXCEPT ![conv] = @ + 1] /\ UNCHANGED sent
    BY <1>1, InputBuffers
  <2>2. NoGaps' /\ Relay!Accept(conv)
    BY <2>1, RelayAccepts DEF RelayInv
  <2>. QED  BY <2>2 DEF Relay!Next, Relay!Conversations, Conversations
<1>2. CASE OtherStep
  BY <1>2, OtherStepBuffers, RelayStutters DEF RelayInv
<1>3. ASSUME NEW g \in GwStreams, TieFailedStream(g) PROVE NoGaps' /\ Relay!Next
  <2>1. asked[g] \in ServeKinds
    BY <1>3 DEF TieFailedStream, DeliverToDestroyed, Inv, ManagerTypeOK, ActionInv
  <2>2. /\ UNCHANGED <<accepted, sent>>
        /\ \A p \in Packet : Buffered(p)' <=> Buffered(p) /\ stream_store[Key(p.conv)] \notin {g}
    BY <1>3, TieFailedBuffers
  <2>. QED  BY <2>1, <2>2, LossesOfOneServer
<1>4. ASSUME NEW g \in GwStreams, Forward(g) PROVE NoGaps' /\ UNCHANGED Relay!vars
  <2>1. \A p \in Packet : Buffered(p)' <=> Buffered(p)
    BY <1>4, PacketForwarded
  <2>2. UNCHANGED <<accepted, sent>>
    BY <1>4 DEF Forward
  <2>. QED  BY <2>1, <2>2, RelayStutters DEF RelayInv
<1>5. ASSUME NEW s \in ServerStreams, Send(s) PROVE NoGaps' /\ Relay!Next
  <2>. DEFINE head == Head(out_buffer[s])
  <2>1. /\ head \in Packet /\ Buffered(head) /\ head.n <= accepted[head.conv]
        /\ \A p \in Packet : Buffered(p) /\ p.conv = head.conv => head.n <= p.n
        /\ \A p \in Packet : Buffered(p)' <=> Buffered(p) /\ p # head
    BY <1>5, PacketSent
  <2>2. sent' = [sent EXCEPT ![head.conv] = head.n] /\ UNCHANGED accepted
    BY <1>5 DEF Send
  <2>. HIDE DEF head
  <2>3. NoGaps' /\ Relay!Deliver(head.conv)
    BY <2>1, <2>2, RelayDelivers DEF RelayInv
  <2>4. head.conv \in Conversations
    BY <2>1, Home
  <2>. QED  BY <2>3, <2>4 DEF Relay!Next, Relay!Conversations, Conversations
<1>6. ASSUME NEW s \in ServerStreams, StreamState(s) PROVE NoGaps' /\ Relay!Next
  <2>. DEFINE gs == {g \in GwStreams : server_stream[g] = s}
  <2>1. serves[s] \in ServeKinds /\ \A g \in gs : asked[g] = serves[s]
    BY <1>6, ManagerAssumption
       DEF StreamState, LinkError, Inv, ManagerTypeOK, StreamInv, CallerStreamServesCaller
  <2>2. /\ UNCHANGED <<accepted, sent>>
        /\ \A p \in Packet : Buffered(p)' <=> Buffered(p) /\ stream_store[Key(p.conv)] \notin gs
    BY <1>6, StreamStateBuffers
  <2>. QED  BY <2>1, <2>2, LossesOfOneServer
<1>7. ASSUME Restart PROVE NoGaps' /\ Relay!Next
  <2>1. /\ UNCHANGED <<accepted, sent>>
        /\ \A p \in Packet : Buffered(p)' <=> Buffered(p) /\ p.conv \notin Conversations
    BY <1>7, RestartBuffers, Home
  <2>2. NoGaps' /\ Relay!Lose(Conversations)
    BY <2>1, RelayLoses DEF RelayInv
  <2>. QED  BY <2>2 DEF Relay!Next, Relay!Restart, Relay!Conversations, Conversations
<1>8. \/ \E conv \in Conversations : Input(conv)
      \/ OtherStep
      \/ \E g \in GwStreams : TieFailedStream(g) \/ Forward(g)
      \/ \E s \in ServerStreams : Send(s) \/ StreamState(s)
      \/ Restart
  BY DEF Next, OtherStep
<1>9. CASE \E conv \in Conversations : Input(conv)
  BY <1>1, <1>9 DEF RelayInv
<1>10. CASE \E g \in GwStreams : TieFailedStream(g) \/ Forward(g)
  BY <1>3, <1>4, <1>10 DEF RelayInv
<1>11. CASE \E s \in ServerStreams : Send(s) \/ StreamState(s)
  BY <1>5, <1>6, <1>11 DEF RelayInv
<1>12. CASE OtherStep \/ Restart
  BY <1>2, <1>7, <1>12 DEF RelayInv
<1>. QED  BY <1>8, <1>9, <1>10, <1>11, <1>12

\* At first nothing waits.
LEMMA RelayInit == Init => RelayInv /\ Relay!Init
<1>. SUFFICES ASSUME Init PROVE RelayInv /\ Relay!Init
  OBVIOUS
<1>1. \A p : ~Buffered(p)
  BY BufferInit
<1>2. \A c \in Conversations : Waiting(c) = {} /\ accepted[c] = 0
  BY <1>1 DEF Waiting, Init
<1>3. \A c \in Conversations : Oldest(Waiting(c), accepted[c]) = 1
  BY <1>2 DEF Oldest
<1>. QED  BY <1>2, <1>3, BufferInit
          DEF RelayInv, NoGaps, Relay!Init, Relay!Conversations, Conversations, Init

\* Per conversation the gateway sends packets in order and at most once, and
\* passes over a packet only when all that wait for its server are lost with
\* a stream, or everything is in a restart (LocalPort, GwStream and
\* ServerStream with their buffers).
THEOREM GatewayRelaysPackets ==
    ASSUME IdentityInjective PROVE Spec => RelaySpec
<1>1. Init => RelayInv /\ Relay!Init
  BY RelayInit
<1>2. Inv /\ GatewayInv /\ RelayInv /\ [Next]_vars
          => RelayInv' /\ [Relay!Next]_(Relay!vars)
  BY NextIsRelayNext, IdentityInjective
<1>. QED  BY <1>1, <1>2, GatewayInvariant, PTL DEF Spec, RelaySpec, Relay!Spec

============================================================================
