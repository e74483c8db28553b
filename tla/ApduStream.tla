----------------------------- MODULE ApduStream -----------------------------
(***************************************************************************)
(* The frames of the basic_server on a TCP connection (apdu_parser.cpp,    *)
(* BasicServerClient::receive): the server writes frames, the network cuts *)
(* what it writes into chunks anywhere, and the client puts the frames     *)
(* together again in tcp_buffer_.                                          *)
(*                                                                         *)
(* A byte is a number; the two bytes of a length and of a message id are   *)
(* one number each, and the padding of the header is left out.  The body   *)
(* of a frame may contain anything, also what looks like another frame.    *)
(***************************************************************************)
EXTENDS Integers, Sequences, FiniteSetsExt

CONSTANTS
  Bodies,          \* the ASDUs of this instance
  MessageIds,      \* message ids of this instance
  ChunkSize,       \* bytes a recv takes at most (4096)
  MaxFrames,       \* bound: frames on a connection
  MaxConnections   \* bound: connections

ASSUME StreamAssumption ==
  /\ Bodies \subseteq Seq(Nat) /\ MessageIds \subseteq Nat
  /\ ChunkSize \in Nat \ {0} /\ MaxFrames \in Nat /\ MaxConnections \in Nat

VARIABLES
  bytes,         \* environment: what the server has written on this connection
  arrived,       \* environment: how many of these bytes the client has received
  tcp_buffer_,   \* tcp_buffer_
  frame,         \* the last frame given to handleFrame, as a set of at most one
  frames, ends,  \* history: the frames the server has written, and where each ends
  handled,       \* history: how many frames were given to handleFrame
  connections

stream == <<bytes, arrived>>
history == <<frames, ends, handled>>
streamVars == <<stream, tcp_buffer_, frame, history, connections>>

-----------------------------------------------------------------------------

Sync == <<235, 145, 235, 144>>

kLengthOffset == 5
kMessageIdOffset == 6
kHeaderSize == 7

\* A frame in bytes; the format says JSON.
Apdu(f) == (Sync \o <<Len(f.asdu), f.message_id, 1>>) \o f.asdu

hasSyncBytes(data, at) == at + 3 <= Len(data) /\ SubSeq(data, at, at + 3) = Sync

parse(data) ==
  IF Len(data) < kHeaderSize \/ ~ hasSyncBytes(data, 1)
     \/ Len(data) # kHeaderSize + data[kLengthOffset]
  THEN {}
  ELSE {[message_id |-> data[kMessageIdOffset],
         asdu |-> SubSeq(data, kHeaderSize + 1, Len(data))]}

\* What comes before the first synchronization bytes is dropped; without any,
\* everything is.
FromSync(data) ==
  LET found == {at \in DOMAIN data : hasSyncBytes(data, at)}
  IN  IF found = {} THEN <<>> ELSE SubSeq(data, Min(found), Len(data))

\* extract(): the first frame of the buffer, if it is complete, and the rest.
extract(buffer) ==
  LET data == IF Len(buffer) < kHeaderSize THEN buffer ELSE FromSync(buffer)
      frame_size == kHeaderSize + data[kLengthOffset]
  IN  IF Len(data) < kHeaderSize \/ Len(data) < frame_size
      THEN [frame |-> {}, buffer |-> data]
      ELSE [frame |-> parse(SubSeq(data, 1, frame_size)),
            buffer |-> SubSeq(data, frame_size + 1, Len(data))]

-----------------------------------------------------------------------------

StreamInit ==
  /\ bytes = <<>> /\ arrived = 0 /\ tcp_buffer_ = <<>> /\ frame = {}
  /\ frames = <<>> /\ ends = <<>> /\ handled = 0 /\ connections = 1

\* The server writes a frame.
Write(f) ==
  /\ Len(frames) < MaxFrames
  /\ bytes' = bytes \o Apdu(f)
  /\ frames' = Append(frames, f) /\ ends' = Append(ends, Len(bytes'))
  /\ UNCHANGED <<arrived, tcp_buffer_, frame, handled, connections>>

Take(extracted) ==
  /\ tcp_buffer_' = extracted.buffer
  /\ frame' = extracted.frame
  /\ handled' = handled + (IF extracted.frame = {} THEN 0 ELSE 1)

\* receive(): a frame that is already there, or else one recv; poll may find
\* nothing to read.
receive ==
  /\ LET buffered == extract(tcp_buffer_)
     IN  IF buffered.frame # {} THEN Take(buffered) /\ UNCHANGED arrived
         ELSE \/ Take(buffered) /\ UNCHANGED arrived
              \/ \E n \in arrived + 1 .. Len(bytes) :
                   /\ n <= arrived + ChunkSize
                   /\ Take(extract(buffered.buffer \o SubSeq(bytes, arrived + 1, n)))
                   /\ arrived' = n
  /\ UNCHANGED <<bytes, frames, ends, connections>>

\* The worker closes the socket and opens another, at any time between two
\* receives: what had arrived of the old connection is forgotten.
\* (mutated: the buffer is kept)
ReconnectMutant ==
  /\ connections < MaxConnections /\ connections' = connections + 1
  /\ bytes' = <<>> /\ arrived' = 0 /\ frame' = {}
  /\ frames' = <<>> /\ ends' = <<>> /\ handled' = 0
  /\ UNCHANGED tcp_buffer_
Reconnect ==
  /\ connections < MaxConnections /\ connections' = connections + 1
  /\ bytes' = <<>> /\ arrived' = 0 /\ frame' = {}
  /\ frames' = <<>> /\ ends' = <<>> /\ handled' = 0
  /\ tcp_buffer_' = <<>>

StreamNext ==
  \/ \E id \in MessageIds, asdu \in Bodies : Write([message_id |-> id, asdu |-> asdu])
  \/ receive \/ Reconnect

StreamSpec == StreamInit /\ [][StreamNext]_streamVars

-----------------------------------------------------------------------------
(* Properties *)

\* Where the frame after the first k begins.
Start(k) == IF k = 0 THEN 0 ELSE ends[k]

\* However the network cuts the stream, and whatever the bodies look like: the
\* frames that reach handleFrame are those the server wrote on this connection,
\* in order and whole, and the buffer holds exactly the bytes received since the
\* last of them: none is lost, none is read twice (extract, receive, close).
FramesComeWhole ==
  /\ handled <= Len(frames)
  /\ \A f \in frame : f = frames[handled]
  /\ arrived >= Start(handled)
  /\ tcp_buffer_ = SubSeq(bytes, Start(handled) + 1, arrived)
=============================================================================
