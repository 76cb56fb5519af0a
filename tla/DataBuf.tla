------------------------------- MODULE DataBuf -------------------------------
(***************************************************************************)
(* The buffers of connections (memory/data_buf.h, memory/data_buf.cpp) on  *)
(* the pool of chunks they share, driven the way TcpConnection and the     *)
(* message callback of the echo server drive them: read_from_fd, then the  *)
(* callback pops bytes, adjusts, and sends them back; write2fd when the    *)
(* socket takes bytes; both buffers cleared on close.                      *)
(*                                                                         *)
(* Each connection is served by a thread of its own (those of one loop take*)
(* turns, which is a special case).  Only the pool is shared: a call that  *)
(* moves a buffer to a larger chunk allocates, then copies and gives the   *)
(* old chunk back, and other threads come in between.  The bytes a client  *)
(* sends are numbered.  Evictions, which clear buffers from another thread,*)
(* are left out; see TcpServer for what they can disturb.                  *)
(***************************************************************************)
EXTENDS Integers, Sequences, FiniteSets, FiniteSetsExt, Functions

CONSTANTS Conns,
          MaxBytes,        \* bound: bytes per client
          MaxTotal,        \* bound: bytes of all clients
          Caps, InitNum, MAX_POOL_SIZE

Bytes == 1..MaxBytes

ASSUME BufAssumption ==
    /\ IsFiniteSet(Conns) /\ MaxBytes \in Nat /\ MaxTotal \in Nat
    /\ IsFiniteSet(Caps) /\ Caps # {} /\ Caps \subseteq Nat \ {0}
    /\ InitNum \in Nat \ {0}
    /\ MAX_POOL_SIZE \in Nat
    /\ MAX_POOL_SIZE > SumFunctionOnSet([c \in Caps |-> c * InitNum], Caps)

INSTANCE Mempool WITH NoByte <- 0

VARIABLES
    pool,      \* the Mempool
    buf,       \* data_buf of tc_ibuf ("in") and tc_obuf ("out")
    new_buf,   \* per connection: the local of a call that moves a buffer
    pc,        \* where the connection's thread is
    need_read, \* the local of read_from_fd
    msg,       \* bytes the callback has taken and not yet sent
    sent,      \* bytes the client has sent
    got,       \* of these, the ones read_from_fd has read
    eof,       \* clients that have closed their end
    out,       \* bytes written to the socket, in order
    dropped,   \* history: bytes whose send failed
    exited     \* the pool has ended the process

conn == <<pc, need_read, msg>>
sock == <<sent, got, eof, out>>
mem  == <<pool, buf, new_buf, exited>>
vars == <<mem, conn, sock, dropped>>

Sides == {"in", "out"}

TypeOK ==
    /\ IsPool(pool)
    /\ buf \in [Conns -> [Sides -> ChunkIds \cup {nullptr}]]
    /\ new_buf \in [Conns -> ChunkIds \cup {nullptr}]
    /\ pc \in [Conns -> {"idle", "move_in", "read", "message", "send",
                         "move_out", "append", "close", "close_out", "closed"}]
    /\ {need_read, sent, got} \subseteq [Conns -> 0..MaxBytes]
    /\ \A c \in Conns : msg[c] \in Seq(Bytes) /\ out[c] \in Seq(Bytes)
    /\ eof \subseteq Conns
    /\ dropped \in [Conns -> SUBSET Bytes]
    /\ exited \in BOOLEAN

Init ==
    /\ pool = NewPool /\ exited = FALSE
    /\ buf = [c \in Conns |-> [s \in Sides |-> nullptr]]
    /\ new_buf = [c \in Conns |-> nullptr]
    /\ pc = [c \in Conns |-> "idle"]
    /\ need_read = [c \in Conns |-> 0] /\ msg = [c \in Conns |-> <<>>]
    /\ sent = [c \in Conns |-> 0] /\ got = [c \in Conns |-> 0] /\ eof = {}
    /\ out = [c \in Conns |-> <<>>] /\ dropped = [c \in Conns |-> {}]

Goto(c, from, to) == ~exited /\ pc[c] = from /\ pc' = [pc EXCEPT ![c] = to]
Chunk(c, s)  == pool.chunk[buf[c][s]]
Length(c, s) == IF buf[c][s] = nullptr THEN 0 ELSE Chunk(c, s).length

-----------------------------------------------------------------------------
client_send(c) ==
    /\ ~exited /\ c \notin eof /\ sent[c] < MaxBytes
    /\ SumFunctionOnSet(sent, Conns) < MaxTotal
    /\ sent' = [sent EXCEPT ![c] = @ + 1]
    /\ UNCHANGED <<mem, conn, got, eof, out, dropped>>

client_close(c) ==
    /\ ~exited /\ c \notin eof
    /\ eof' = eof \cup {c}
    /\ UNCHANGED <<mem, conn, sent, got, out, dropped>>

-----------------------------------------------------------------------------
(* The first part of read_from_fd and of write2buf: make room for n more   *)
(* bytes.  There is enough, or a chunk is allocated for what is there and  *)
(* n more.                                                                 *)
RoomOfNew(c, s, n) == n              \* variant: the length is forgotten
Needed(c, s, n) == n + Length(c, s)

HasRoom(c, s, n) ==
    buf[c][s] # nullptr /\ Chunk(c, s).capacity - Chunk(c, s).length >= n

room_enough(c, s, n, from, to) ==
    /\ HasRoom(c, s, n)
    /\ Goto(c, from, to)
    /\ UNCHANGED mem

room_alloc(c, s, n, from, via, to) ==
    /\ ~HasRoom(c, s, n)
    /\ LET len == Needed(c, s, n)
           k == AllocId(pool, len)
       IN  /\ Fitting(len) # {} /\ ~MustExit(pool, len)
           /\ pool' = AfterAlloc(pool, len)
           /\ IF buf[c][s] = nullptr
              THEN /\ buf' = [buf EXCEPT ![c][s] = k]
                   /\ Goto(c, from, to)
                   /\ UNCHANGED new_buf
              ELSE /\ new_buf' = [new_buf EXCEPT ![c] = k]
                   /\ Goto(c, from, via)
                   /\ UNCHANGED buf
    /\ UNCHANGED exited

room_exit(c, s, n, from) ==
    /\ ~HasRoom(c, s, n)
    /\ Fitting(Needed(c, s, n)) # {} /\ MustExit(pool, Needed(c, s, n))
    /\ Goto(c, from, from)
    /\ exited' = TRUE
    /\ UNCHANGED <<pool, buf, new_buf>>

NoFit(c, s, n) == ~HasRoom(c, s, n) /\ Fitting(Needed(c, s, n)) = {}

(* Variant: the old chunk is not given back.                               *)
MoveAndLeak(c, s, from, to) ==
    /\ Goto(c, from, to)
    /\ LET k == new_buf[c]
       IN  /\ pool' = WithChunk(pool, k, ChunkCopy(pool.chunk[k], Chunk(c, s)))
           /\ buf' = [buf EXCEPT ![c][s] = k]
    /\ new_buf' = [new_buf EXCEPT ![c] = nullptr]
    /\ UNCHANGED <<need_read, msg, sock, dropped, exited>>

(* The contents move to the new chunk and the old one goes back.           *)
move(c, s, from, to) ==
    /\ Goto(c, from, to)
    /\ LET k == new_buf[c]
           copied == WithChunk(pool, k, ChunkCopy(pool.chunk[k], Chunk(c, s)))
       IN  /\ pool' = retrieve(copied, buf[c][s])
           /\ buf' = [buf EXCEPT ![c][s] = k]
    /\ new_buf' = [new_buf EXCEPT ![c] = nullptr]
    /\ UNCHANGED <<need_read, msg, sock, dropped, exited>>

-----------------------------------------------------------------------------
(* InputBuffer::read_from_fd, when the socket is readable: FIONREAD tells  *)
(* how much there is (nothing, at end of file), room is made, ...          *)
Readable(c) == sent[c] > got[c] \/ c \in eof

read_from_fd(c) ==
    /\ Readable(c)
    /\ LET n == sent[c] - got[c]
       IN  /\ need_read' = [need_read EXCEPT ![c] = n]
           /\ \/ room_enough(c, "in", n, "idle", "read")
              \/ room_alloc(c, "in", n, "idle", "move_in", "read")
              \/ room_exit(c, "in", n, "idle")
              \/ /\ NoFit(c, "in", n)
                 /\ Goto(c, "idle", "close")
                 /\ UNCHANGED mem
    /\ UNCHANGED <<msg, sock, dropped>>

(* ... and so many bytes are read, even if more have come in the meantime. *)
read_bytes(c) ==
    /\ need_read[c] > 0
    /\ Goto(c, "read", "message")
    /\ pool' = WithChunk(pool, buf[c]["in"],
                  PutBehind(Chunk(c, "in"), [i \in 1..need_read[c] |-> got[c] + i]))
    /\ got' = [got EXCEPT ![c] = @ + need_read[c]]
    /\ UNCHANGED <<buf, new_buf, need_read, msg, sent, eof, out, dropped, exited>>

read_eof(c) ==
    /\ need_read[c] = 0
    /\ Goto(c, "read", "close")
    /\ UNCHANGED <<mem, need_read, msg, sock, dropped>>

(* ioctl or read fails, which do_read answers by closing the connection;   *)
(* the room that was made stays with the buffer until it is cleared.       *)
read_fails(c) ==
    /\ \/ Readable(c) /\ Goto(c, "idle", "close")
       \/ Goto(c, "read", "close")
    /\ UNCHANGED <<mem, need_read, msg, sock, dropped>>

(* The callback takes len bytes with get_from_buf, pops them, which gives  *)
(* an emptied chunk back, and adjusts the buffer.                          *)
message(c, len) ==
    /\ len \in 1..Length(c, "in")
    /\ Goto(c, "message", "send")
    /\ msg' = [msg EXCEPT ![c] = SubSeq(Contents(Chunk(c, "in")), 1, len)]
    /\ LET k == buf[c]["in"]
       IN  IF len = Length(c, "in")
           THEN /\ pool' = retrieve(pool, k)
                /\ buf' = [buf EXCEPT ![c]["in"] = nullptr]
           ELSE /\ pool' = WithChunk(pool, k, Adjust(ChunkPop(Chunk(c, "in"), len)))
                /\ UNCHANGED buf
    /\ UNCHANGED <<new_buf, need_read, sock, dropped, exited>>

(* OutputBuffer::write2buf, called by send: make room, ...                 *)
write2buf(c) ==
    /\ LET n == Len(msg[c])
       IN  \/ /\ \/ room_enough(c, "out", n, "send", "append")
                 \/ room_alloc(c, "out", n, "send", "move_out", "append")
                 \/ room_exit(c, "out", n, "send")
              /\ UNCHANGED <<msg, dropped>>
           \/ /\ NoFit(c, "out", n)
              /\ Goto(c, "send", "idle")
              /\ msg' = [msg EXCEPT ![c] = <<>>]
              /\ dropped' = [dropped EXCEPT ![c] =
                               @ \cup {msg[c][i] : i \in 1..n}]
              /\ UNCHANGED mem
    /\ UNCHANGED <<need_read, sock>>

(* ... and put the bytes behind those that wait.                           *)
append(c) ==
    /\ Goto(c, "append", "idle")
    /\ pool' = WithChunk(pool, buf[c]["out"], PutBehind(Chunk(c, "out"), msg[c]))
    /\ msg' = [msg EXCEPT ![c] = <<>>]
    /\ UNCHANGED <<buf, new_buf, need_read, sock, dropped, exited>>

(* OutputBuffer::write2fd: the socket takes the first n bytes.             *)
write2fd(c, n) ==
    /\ n \in 1..Length(c, "out")
    /\ Goto(c, "idle", "idle")
    /\ out' = [out EXCEPT ![c] = @ \o SubSeq(Contents(Chunk(c, "out")), 1, n)]
    /\ pool' = WithChunk(pool, buf[c]["out"], Adjust(ChunkPop(Chunk(c, "out"), n)))
    /\ UNCHANGED <<buf, new_buf, need_read, msg, sent, got, eof, dropped, exited>>

(* Writing fails, as it may when the client has closed.                    *)
write_fails(c) ==
    /\ c \in eof /\ Length(c, "out") > 0
    /\ Goto(c, "idle", "close")
    /\ UNCHANGED <<mem, need_read, msg, sock, dropped>>

(* do_close: BufferBase::clear of both buffers.                            *)
clear(c, s, from, to) ==
    /\ Goto(c, from, to)
    /\ \/ buf[c][s] = nullptr /\ UNCHANGED <<pool, buf>>
       \/ /\ buf[c][s] # nullptr
          /\ pool' = retrieve(pool, buf[c][s])
          /\ buf' = [buf EXCEPT ![c][s] = nullptr]
    /\ UNCHANGED <<new_buf, need_read, msg, sock, dropped, exited>>

-----------------------------------------------------------------------------
Next ==
    \E c \in Conns :
        \/ client_send(c) \/ client_close(c)
        \/ read_from_fd(c) \/ move(c, "in", "move_in", "read")
        \/ read_bytes(c) \/ read_eof(c) \/ read_fails(c)
        \/ \E len \in 1..MaxBytes : message(c, len)
        \/ write2buf(c) \/ move(c, "out", "move_out", "append") \/ append(c)
        \/ \E n \in 1..MaxBytes : write2fd(c, n)
        \/ write_fails(c)
        \/ clear(c, "in", "close", "close_out")
        \/ clear(c, "out", "close_out", "closed")

Spec == Init /\ [][Next]_vars

-----------------------------------------------------------------------------
Free == UNION {{pool.mp_pool[c][i] : i \in 1..Len(pool.mp_pool[c])} : c \in Caps}
Held == {buf[c][s] : c \in Conns, s \in Sides}
            \cup {new_buf[c] : c \in Conns}

(* The counters tell the truth at every step of any interleaving: left is  *)
(* the size of the free lists, total that of all chunks, and total stays   *)
(* below the limit.                                                        *)
PoolAccounting ==
    /\ pool.mp_left_size_kb = SumCaps(pool, Free)
    /\ pool.mp_total_size_kb = SumCaps(pool, Created(pool))
    /\ pool.mp_total_size_kb < MAX_POOL_SIZE

(* A chunk is never in two places and never lost: each is once in the list *)
(* of its size, or the property of one buffer or one call.                 *)
OneHolder ==
    /\ Free \cup (Held \ {nullptr}) = Created(pool)
    /\ Free \cap Held = {}
    /\ Cardinality(Free)
          = SumFunctionOnSet([c \in Caps |-> Len(pool.mp_pool[c])], Caps)
    /\ \A c, d \in Conns, s, r \in Sides :
          buf[c][s] = buf[d][r] /\ buf[c][s] # nullptr => c = d /\ s = r
    /\ \A c, d \in Conns, s \in Sides :
          new_buf[c] # nullptr =>
             buf[d][s] # new_buf[c] /\ (c # d => new_buf[d] # new_buf[c])

(* What the client sent comes back unchanged: the bytes written, waiting   *)
(* in the output buffer, in the callback's hands and in the input buffer   *)
(* are, in this order, the bytes read, each once and in the order in which *)
(* they were sent, less those whose send failed.                           *)
Pending(c, s) == IF buf[c][s] = nullptr THEN <<>> ELSE Contents(Chunk(c, s))
Stream(c) == out[c] \o Pending(c, "out") \o msg[c] \o Pending(c, "in")
StreamIntact ==
    \A c \in Conns : pc[c] \notin {"close", "close_out", "closed"} =>
        /\ {Stream(c)[i] : i \in DOMAIN Stream(c)} = (1..got[c]) \ dropped[c]
        /\ \A i, j \in DOMAIN Stream(c) : i < j => Stream(c)[i] < Stream(c)[j]
=============================================================================
