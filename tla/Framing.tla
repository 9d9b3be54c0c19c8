------------------------------ MODULE Framing ------------------------------
(***************************************************************************)
(* rpc/packet_parser.cc over base/buffer.cc and the Send and Recv of       *)
(* base/net.cc: packets go from one socket's write_list_ through the       *)
(* kernel, which takes and delivers any number of bytes at a time, to      *)
(* another socket's read_list_ and out of its PacketParser.  Both sockets  *)
(* live on one worker and share its pool of buffers.                       *)
(*                                                                         *)
(* A byte is [pkt, off]: of which packet, and where in it; NULL is what    *)
(* write(2) finds behind the end of a buffer, where Send lets it read.     *)
(* A step is one round of a loop: one memcpy of BufferList::Write or Read, *)
(* one write(2) or read(2).  The Writes of the members of one packet are   *)
(* taken as one, and so are the Reads of one header.                       *)
(***************************************************************************)
EXTENDS BufferList

CONSTANTS
  Meta,       \* kMetaSize, in bytes of the model
  Sizes,      \* bound: content sizes
  MaxPackets  \* bound: packets sent

ASSUME FramingAssumption ==
  /\ Lists = {"write", "read"} /\ Grow >= 2 /\ MaxBuffers >= Grow
  /\ Meta \in Nat \ {0} /\ Sizes \subseteq Nat /\ MaxPackets \in Nat
  /\ NULL \notin [pkt : Nat, off : Nat]

VARIABLES
  sent,    \* history: sizes of the packets sent
  start,   \* history: start[p] bytes were sent before packet p
  from,    \* SendPacket: how much of the last packet is in write_list_
  onWire,  \* all bytes given to the kernel, and
  taken,   \* how many of them read(2) has returned
  state,   \* PacketParser::state_, RECV_DONE being passed at once
  packet,  \* packet_: [pkt, size] of the last header taken
  copied,  \* what the Read that runs has put into `to'
  pc,      \* "poll"; "send": in SendPacket; "recv": in Recv;
           \* "parse": in OnRead; "read": in BufferList::Read
  got      \* history: the packets RecvPacket returned

sendVars == <<sent, start, from>>
wireVars == <<onWire, taken>>
parserVars == <<state, packet, copied, got>>
vars == <<bufferVars, sendVars, wireVars, parserVars, pc>>

Total == start[Len(start)]   \* bytes of all packets sent

Least(m, n) == IF m <= n THEN m ELSE n

Init ==
  /\ InitBuffers([l \in Lists |-> IF l = "read" THEN 1 ELSE 2], 2)
  /\ sent = <<>> /\ start = <<0>> /\ from = 0
  /\ onWire = <<>> /\ taken = 0
  /\ state = "header" /\ packet = NULL /\ copied = <<>> /\ got = <<>>
  /\ pc = "poll"

----------------------------------------------------------------------------
(* PacketParser::SendPacket and BufferList::Write                          *)

SendPacket(size) ==
  /\ pc = "poll" /\ Len(sent) < MaxPackets
  /\ sent' = Append(sent, size)
  /\ start' = Append(start, Total + Meta + size)
  /\ from' = 0 /\ pc' = "send"
  /\ UNCHANGED <<bufferVars, wireVars, parserVars>>

Left == Meta + sent[Len(sent)] - from

\* The n bytes of the packet from `from' on.
Piece(n) == [k \in 1..n |-> [pkt |-> Len(sent), off |-> from + k]]

WriteSome ==
  /\ pc = "send"
  /\ LET n == Least(Left, WriteableSize("write")) IN
     /\ WriteAdvance("write", n, Piece(n))
     /\ from' = from + n
     /\ pc' = IF n = Left THEN "poll" ELSE "send"
  /\ UNCHANGED <<sent, start, wireVars, parserVars>>

----------------------------------------------------------------------------
(* The kernel                                                              *)

\* One write(2) of Send, which offers all that is readable as if it lay
\* behind ReadPoint, in one buffer.
Send(n) ==
  /\ pc = "poll" /\ n \in 1..ReadableSize("write")
  /\ onWire' = onWire \o Window("write", n)
  /\ ReadAdvance("write", n)
  /\ UNCHANGED <<sendVars, taken, parserVars, pc>>

\* Socket::In: one read(2) of Recv, into what is left of the buffer.
Recv(n) ==
  /\ pc \in {"poll", "recv"}
  /\ n \in 1..WriteableSize("read") /\ taken + n <= Len(onWire)
  /\ WriteAdvance("read", n, [k \in 1..n |-> onWire[taken + k]])
  /\ taken' = taken + n /\ pc' = "recv"
  /\ UNCHANGED <<sendVars, onWire, parserVars>>

\* read(2) finds no more, EAGAIN, and In calls OnRead.
OnRead ==
  /\ pc = "recv" /\ taken = Len(onWire)
  /\ pc' = "parse"
  /\ UNCHANGED <<bufferVars, sendVars, wireVars, parserVars>>

----------------------------------------------------------------------------
(* PacketParser::RecvPacket and BufferList::Read                           *)

Wanted == IF state = "header" THEN Meta ELSE packet.size

\* MUTANT Enough: a piece that just fits is waited for.
EnoughMore == ReadableSize("read") > Wanted

\* Whether all bytes of the header, or of the content, have arrived.
Enough == ReadableSize("read") >= Wanted

\* RecvPacket goes on to read, or returns false, which ends the loop of
\* OnRead.
RecvPacket ==
  /\ pc = "parse"
  /\ pc' = IF Enough THEN "read" ELSE "poll"
  /\ UNCHANGED <<bufferVars, sendVars, wireVars, parserVars>>

ReadSome ==
  /\ pc = "read" /\ Len(copied) < Wanted
  /\ LET n == Least(Wanted - Len(copied), CurrentBufferReadSize("read")) IN
     /\ copied' = copied \o Window("read", n)
     /\ ReadAdvance("read", n)
  /\ UNCHANGED <<sendVars, wireVars, state, packet, got, pc>>

Header(p) == [k \in 1..Meta |-> [pkt |-> p, off |-> k]]

Accepted(p, size) ==
  packet' = [pkt |-> p, size |-> size] /\ state' = "packet" /\ pc' = "parse"

\* RECV_HEADER_STATE.  Bytes that are no header may still look like one, of
\* any size.  If they do not have the magic number, RecvPacket gives up for
\* now, with the header consumed.
RecvHeader ==
  /\ pc = "read" /\ state = "header" /\ Len(copied) = Meta
  /\ \/ \E p \in DOMAIN sent : copied = Header(p) /\ Accepted(p, sent[p])
     \/ /\ \A p \in DOMAIN sent : copied # Header(p)
        /\ \/ \E size \in Sizes : Accepted(0, size)
           \/ pc' = "poll" /\ UNCHANGED <<packet, state>>
  /\ copied' = <<>>
  /\ UNCHANGED <<bufferVars, sendVars, wireVars, got>>

\* MUTANT NextState: after a packet the parser waits for content again.
NextStateSame == "packet"

NextState == "header"

\* RECV_PACKET_STATE and RECV_DONE
RecvContent ==
  /\ pc = "read" /\ state = "packet" /\ Len(copied) = packet.size
  /\ got' = Append(got, [pkt |-> packet.pkt, content |-> copied])
  /\ state' = NextState /\ copied' = <<>> /\ pc' = "parse"
  /\ UNCHANGED <<bufferVars, sendVars, wireVars, packet>>

Next ==
  \/ \E size \in Sizes : SendPacket(size)
  \/ WriteSome
  \/ \E n \in 1..ReadableSize("write") : Send(n)
  \/ \E n \in 1..BufferSize : Recv(n)
  \/ OnRead \/ RecvPacket \/ ReadSome \/ RecvHeader \/ RecvContent

Spec == Init /\ [][Next]_vars

----------------------------------------------------------------------------
(* Properties.                                                             *)

Byte == [pkt : Nat, off : Nat] \cup {NULL}

Cell == [buf : Buffers, before : Nat]

TypeOK ==
  /\ next \in [Buffers -> Buffers \cup {NULL}]
  /\ data \in [Buffers -> [1..BufferSize -> Byte]]
  /\ pool \in Seq(Buffers) /\ made \in 1..MaxBuffers
  /\ read \in [Lists -> Buffers] /\ write \in [Lists -> Buffers]
  /\ rinx \in [Lists -> Nat] /\ winx \in [Lists -> Nat]
  /\ rsize \in [Lists -> Nat] /\ wsize \in [Lists -> Nat]
  /\ chain \in [Lists -> Seq(Cell)] /\ gone \in [Lists -> Nat]
  /\ sent \in Seq(Sizes) /\ start \in Seq(Nat) /\ from \in Nat
  /\ onWire \in Seq(Byte) /\ taken \in Nat
  /\ state \in {"header", "packet"}
  /\ packet \in [pkt : Nat, size : Sizes] \cup {NULL}
  /\ copied \in Seq(Byte) /\ got \in Seq([pkt : Nat, content : Seq(Byte)])
  /\ pc \in {"poll", "send", "recv", "parse", "read"}

\* x is the i-th byte of packets with these sizes and starts.
ByteOf(x, i, sizes, starts) ==
  /\ x # NULL /\ x.pkt \in 1..Len(sizes)
  /\ x.off \in 1..(Meta + sizes[x.pkt])
  /\ i = starts[x.pkt] + x.off

\* x is the i-th byte of all bytes sent.
IsByte(x, i) == ByteOf(x, i, sent, start)

\* write(2) has run past the end of a buffer.  From then on read_inx_ is beyond
\* it, the test of ReadAdvance never holds, and ReadPoint stays outside.
Overrun == rinx["write"] > BufferSize

\* How many bytes went to the kernel before that.
Clean == IF Overrun THEN Len(onWire) - (rinx["write"] - BufferSize) ELSE Len(onWire)

\* The places in chain[l] of the buffers that list l holds.
Held(l) == (gone[l] + 1)..Len(chain[l])

Linked(l) ==
  /\ gone[l] < Len(chain[l]) /\ winx[l] < BufferSize
  /\ rinx[l] # BufferSize /\ (l = "read" => rinx[l] < BufferSize)
  /\ rsize[l] <= wsize[l]
  /\ read[l] = chain[l][gone[l] + 1].buf
  /\ rsize[l] = chain[l][gone[l] + 1].before + rinx[l]
  /\ write[l] = chain[l][Len(chain[l])].buf
  /\ wsize[l] = chain[l][Len(chain[l])].before + winx[l]
  /\ \A i \in Held(l) : i + 1 \in Held(l) =>
       /\ next[chain[l][i].buf] = chain[l][i + 1].buf
       /\ chain[l][i + 1].before = chain[l][i].before + BufferSize

\* x is the i-th byte that was put into list l.
IsPut(l, x, i) == IF l = "write" THEN IsByte(x, i) ELSE i <= Len(onWire) /\ x = onWire[i]

Holds(l) ==
  \A i \in Held(l), j \in 1..BufferSize :
    LET at == chain[l][i].before + j IN
    rsize[l] < at /\ at <= wsize[l] => IsPut(l, data[chain[l][i].buf][j], at)

\* A BufferList is a queue: next_ leads from read_ to write_ over buffers in
\* which lie the bytes that were written (for read_list_, those that came over
\* the wire) and not yet read, in their order, whatever buffers were recycled
\* meanwhile; and read_inx_ never leaves its buffer unless Send makes it.
ListIsQueue == TypeOK /\ \A l \in Lists : Linked(l) /\ Holds(l)

\* Each buffer allocated is in free_list_ or in a list, and nowhere twice.
NoSharing ==
  /\ \A j, k \in DOMAIN pool : pool[j] = pool[k] => j = k
  /\ \A l, m \in Lists : \A i \in Held(l) :
       /\ \A j \in Held(m) : chain[l][i].buf = chain[m][j].buf => l = m /\ i = j
       /\ \A k \in DOMAIN pool : pool[k] # chain[l][i].buf
  /\ \A b \in 1..made : \/ \E k \in DOMAIN pool : pool[k] = b
                        \/ \E l \in Lists : \E i \in Held(l) : chain[l][i].buf = b

Content(p) == [k \in 1..sent[p] |-> [pkt |-> p, off |-> Meta + k]]

\* All of packet k went to the kernel before write(2) ran past a buffer.
Whole(k) == k \in DOMAIN sent /\ start[k + 1] <= Clean

\* Packets come out as they were sent, each once, and once their last byte has
\* been delivered none is left in the parser.  Only when write(2) has run past
\* a buffer may others come out, behind those that went before.
Received ==
  /\ \A k \in DOMAIN got :
       IF Whole(k) THEN got[k] = [pkt |-> k, content |-> Content(k)] ELSE Overrun
  /\ pc = "poll" /\ taken = Len(onWire) => \A k \in DOMAIN sent : Whole(k) => k \in DOMAIN got

\* net.cc, Send: the bytes between ReadPoint and ReadableSize, "in
\* user-space stack to send", are those that were written.
SentAsWritten == \A i \in DOMAIN onWire : IsByte(onWire[i], i)
=============================================================================
