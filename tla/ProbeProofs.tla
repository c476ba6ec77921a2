----------------------------- MODULE ProbeProofs -----------------------------
(***************************************************************************)
(* What Probe promises, for every time limit, every set of codes and pages *)
(* and every peer.  One inductive invariant says, loop by loop, how far    *)
(* the clock may have run and how what has been read lies on the reply.    *)
(***************************************************************************)
EXTENDS Probe, TLAPS

Early == {"connect", "proxy", "ssl", "write"}

(* Bounds of every loop: each goes round at most once after the time is     *)
(* over, and lets no more than one tick pass for it.                        *)
TimeInv ==
    /\ pc \in {"connect", "proxy"} => elapsed = 0 /\ polled = 0
    /\ pc = "ssl" => elapsed + polled <= SslLimit + 1
    /\ pc = "headers" => elapsed + polled <= Timeout + 1
    /\ pc \in {"length", "body"} => elapsed + polled <= Timeout + 2
    /\ pc = "chunk" => elapsed + polled <= Timeout + 3
    /\ pc = "trailer" => elapsed + polled <= Timeout + 4
    /\ pc = "judge" => elapsed <= Timeout + 4

(* The result code is the one sent, once its line has been read. *)
CodeInv ==
    /\ code = "000" \/ (taken > 0 /\ code = reply.code)
    /\ pc = "done" /\ ret = 0 => code \in Accepted /\ iapperror = 0

(* What the headers read so far have told. *)
HeaderInv ==
    /\ pc \in Early => taken = 0
    /\ taken <= 1 => framing = "none" /\ length = 0
    /\ pc = "headers" => taken <= 2
    /\ pc = "headers" /\ taken = 2 =>
          framing = reply.framing /\ (reply.framing = "length" => length = reply.size)
    /\ pc \in {"length", "chunk", "trailer"} => reply.framing = "chunked"

Late == elapsed > Timeout
Eof == ended = 1 /\ taken = arrived

(* The page has the error mark. *)
Bad == reply.size > 0 /\ BadPage(reply.size)

(* A page with a length: index counts its pieces, unless the headers were   *)
(* left before their end, and then no more than one item is read.           *)
PageInv ==
    reply.framing = "length" =>
        /\ pc = "body" =>
              \/ taken < 3 /\ (Late \/ Eof)
              \/ taken = 3 + index /\ length = reply.size /\ (Bad => index < reply.size)
        /\ pc \in {"judge", "done"} => (taken >= 3 + reply.size /\ Bad => iapperror = 1)

(* The first chunk lacks the expected mark. *)
Lacking == "expected" \in marks /\ "expected" \notin Pieces(reply.size) /\ ~reply.gzip

(* No time, or no piece, is left to complete the first chunk. *)
Short == Late \/ (Eof /\ taken < 4 + reply.size)

(* A chunked page: index counts the pieces of the first chunk, unless its   *)
(* loop came too late or after the end of the connection.                   *)
ChunkInv ==
    reply.framing = "chunked" /\ reply.size > 0 =>
        /\ pc = "body" => Short
        /\ pc = "length" => Short \/ taken = 3
        /\ pc = "chunk" => Short \/ (taken = 4 + index /\ length = reply.size /\ index < reply.size)
        /\ pc \in {"trailer", "judge"} => Short \/ (Lacking => iapperror = 1)
        /\ pc = "done" => Late \/ taken < 4 + reply.size \/ (Lacking => iapperror = 1)

Inv == TypeOK /\ TimeInv /\ CodeInv /\ HeaderInv /\ PageInv /\ ChunkInv

-----------------------------------------------------------------------------
(* The peer never changes its reply, nor the reply what is wrong with it.   *)
LEMMA SameReply == ASSUME UNCHANGED peer PROVE (Bad' <=> Bad) /\ (Lacking' <=> Lacking)
  BY DEF peer, Bad, Lacking, BadPage, Pieces

(* A reply and what is counted from it have their types.                    *)
LEMMA ReplyType ==
  ASSUME reply \in Replies
  PROVE /\ reply.size \in Nat /\ reply.code \in Codes
        /\ reply.framing \in {"chunked", "length", "none"}
  BY PageAssumption DEF Replies

(* The invariant holds before anything is sent or read.                     *)
LEMMA InvInit == Init => Inv
<1> SUFFICES ASSUME Init PROVE Inv OBVIOUS
<1>1. TypeOK BY DEF Init, TypeOK
<1>2. TimeInv BY DEF Init, TimeInv
<1>3. CodeInv /\ HeaderInv BY DEF Init, CodeInv, HeaderInv, Early
<1>4. PageInv /\ ChunkInv BY DEF Init, PageInv, ChunkInv
<1> QED BY <1>1, <1>2, <1>3, <1>4 DEF Inv

(* Types are kept by every step.                                            *)
LEMMA TypeNext == ASSUME TypeOK, Next PROVE TypeOK'
<1> USE ReplyType DEF TypeOK, Reading, peer, net, time, read, Return, Leave, After, GoOn, Take, Flag
<1>1. CASE Send BY <1>1 DEF Send
<1>2. CASE Hangup BY <1>2 DEF Hangup
<1>3. CASE Tick BY <1>3 DEF Tick
<1>4. CASE ConnectFails BY <1>4 DEF ConnectFails
<1>5. CASE Connect BY <1>5 DEF Connect
<1>6. CASE ProxyDialog BY <1>6 DEF ProxyDialog
<1>7. CASE Handshake BY <1>7 DEF Handshake
<1>8. CASE HandshakeFails BY <1>8 DEF HandshakeFails
<1>9. CASE HandshakeWaits BY <1>9 DEF HandshakeWaits
<1>10. CASE Write BY <1>10 DEF Write
<1>11. CASE BrokenPipe BY <1>11 DEF BrokenPipe
<1>12. CASE TakeHeader BY <1>12 DEF TakeHeader
<1>13. CASE TakeChunk BY <1>13 DEF TakeChunk
<1>14. CASE GunzipFails BY <1>14 DEF GunzipFails
<1>15. CASE TakeBody BY <1>15 DEF TakeBody
<1>16. ASSUME NEW loop \in Reading, Nothing(loop) PROVE TypeOK' BY <1>16 DEF Nothing
<1>17. ASSUME NEW loop \in Reading, EndOfFile(loop) PROVE TypeOK' BY <1>17 DEF EndOfFile
<1>18. ASSUME NEW loop \in {"length", "trailer"}, TakeLine(loop) PROVE TypeOK' BY <1>18 DEF TakeLine
<1>20. CASE ProxyReplies BY <1>20 DEF ProxyReplies
<1>19. CASE Judge BY <1>19 DEF Judge
<1> QED
  BY <1>1, <1>2, <1>3, <1>4, <1>5, <1>6, <1>7, <1>8, <1>9, <1>10, <1>11, <1>12, <1>13, <1>14,
     <1>15, <1>16, <1>17, <1>18, <1>19, <1>20 DEF Next, Reader, Loop

(* So are the bounds of the clock.                                          *)
LEMMA TimeNext == ASSUME TypeOK, TimeInv, Next PROVE TimeInv'
<1> USE LimitAssumption DEF TypeOK, TimeInv, Reading, time, Return, Leave, After, GoOn, Take
<1>1. CASE Send BY <1>1 DEF Send
<1>2. CASE Hangup BY <1>2 DEF Hangup
<1>3. CASE Tick BY <1>3 DEF Tick
<1>4. CASE ConnectFails BY <1>4 DEF ConnectFails
<1>5. CASE Connect BY <1>5 DEF Connect
<1>6. CASE ProxyDialog BY <1>6 DEF ProxyDialog
<1>7. CASE Handshake BY <1>7 DEF Handshake
<1>8. CASE HandshakeFails BY <1>8 DEF HandshakeFails
<1>9. CASE HandshakeWaits BY <1>9 DEF HandshakeWaits
<1>10. CASE Write BY <1>10 DEF Write
<1>11. CASE BrokenPipe BY <1>11 DEF BrokenPipe
<1>12. CASE TakeHeader BY <1>12 DEF TakeHeader
<1>13. CASE TakeChunk BY <1>13 DEF TakeChunk
<1>14. CASE GunzipFails BY <1>14 DEF GunzipFails
<1>15. CASE TakeBody BY <1>15 DEF TakeBody
<1>16. ASSUME NEW loop \in Reading, Nothing(loop) PROVE TimeInv' BY <1>16 DEF Nothing
<1>17. ASSUME NEW loop \in Reading, EndOfFile(loop) PROVE TimeInv' BY <1>17 DEF EndOfFile
<1>18. ASSUME NEW loop \in {"length", "trailer"}, TakeLine(loop) PROVE TimeInv' BY <1>18 DEF TakeLine
<1>20. CASE ProxyReplies BY <1>20 DEF ProxyReplies
<1>19. CASE Judge BY <1>19 DEF Judge
<1> QED
  BY <1>1, <1>2, <1>3, <1>4, <1>5, <1>6, <1>7, <1>8, <1>9, <1>10, <1>11, <1>12, <1>13, <1>14,
     <1>15, <1>16, <1>17, <1>18, <1>19, <1>20 DEF Next, Reader, Loop

(* And the result code and what the headers have told.                      *)
LEMMA CodeNext == ASSUME TypeOK, CodeInv, HeaderInv, Next PROVE CodeInv' /\ HeaderInv'
<1> USE DEF TypeOK, CodeInv, HeaderInv, Early, Reading, peer, net, read, Return, Leave, After,
            GoOn, Take
<1> DEFINE Goal == CodeInv' /\ HeaderInv'
<1>1. CASE Send BY <1>1 DEF Send
<1>2. CASE Hangup BY <1>2 DEF Hangup
<1>3. CASE Tick BY <1>3 DEF Tick
<1>4. CASE ConnectFails BY <1>4 DEF ConnectFails
<1>5. CASE Connect BY <1>5 DEF Connect
<1>6. CASE ProxyDialog BY <1>6 DEF ProxyDialog
<1>7. CASE Handshake BY <1>7 DEF Handshake
<1>8. CASE HandshakeFails BY <1>8 DEF HandshakeFails
<1>9. CASE HandshakeWaits BY <1>9 DEF HandshakeWaits
<1>10. CASE Write BY <1>10 DEF Write
<1>11. CASE BrokenPipe BY <1>11 DEF BrokenPipe
<1>12. CASE TakeHeader BY <1>12, ReplyType DEF TakeHeader
<1>13. CASE TakeChunk BY <1>13 DEF TakeChunk
<1>14. CASE GunzipFails BY <1>14 DEF GunzipFails
<1>15. CASE TakeBody BY <1>15 DEF TakeBody
<1>16. ASSUME NEW loop \in Reading, Nothing(loop) PROVE Goal BY <1>16 DEF Nothing
<1>17. ASSUME NEW loop \in Reading, EndOfFile(loop) PROVE Goal BY <1>17 DEF EndOfFile
<1>18. ASSUME NEW loop \in {"length", "trailer"}, TakeLine(loop) PROVE Goal BY <1>18 DEF TakeLine
<1>20. CASE ProxyReplies BY <1>20 DEF ProxyReplies
<1>19. CASE Judge BY <1>19 DEF Judge
<1> QED
  BY <1>1, <1>2, <1>3, <1>4, <1>5, <1>6, <1>7, <1>8, <1>9, <1>10, <1>11, <1>12, <1>13, <1>14,
     <1>15, <1>16, <1>17, <1>18, <1>19, <1>20 DEF Next, Reader, Loop
(* A page with a length keeps its place on the reply.                       *)
LEMMA PageNext == ASSUME TypeOK, HeaderInv, CodeInv, PageInv, Next PROVE PageInv'
<1>0. reply.size \in Nat /\ reply.framing \in {"chunked", "length", "none"}
  BY ReplyType DEF TypeOK
<1>a. Bad => reply.size > 0 BY DEF Bad
<1> USE <1>0, SameReply, LimitAssumption
        DEF TypeOK, CodeInv, HeaderInv, PageInv, Late, Eof, Early, Reading, peer, net, time, read,
            Return, Leave, After, GoOn, Take
<1>1. CASE Send BY <1>1 DEF Send
<1>2. CASE Hangup BY <1>2 DEF Hangup
<1>3. CASE Tick BY <1>3 DEF Tick
<1>4. CASE ConnectFails BY <1>4 DEF ConnectFails
<1>5. CASE Connect BY <1>5 DEF Connect
<1>6. CASE ProxyDialog BY <1>6 DEF ProxyDialog
<1>7. CASE Handshake BY <1>7 DEF Handshake
<1>8. CASE HandshakeFails BY <1>8 DEF HandshakeFails
<1>9. CASE HandshakeWaits BY <1>9 DEF HandshakeWaits
<1>10. CASE Write BY <1>10 DEF Write
<1>11. CASE BrokenPipe BY <1>11 DEF BrokenPipe
<1>12. CASE TakeHeader BY <1>12, <1>a DEF TakeHeader
<1>13. CASE TakeChunk BY <1>13 DEF TakeChunk
<1>14. CASE GunzipFails BY <1>14 DEF GunzipFails
<1>15. CASE TakeBody
  <2> SUFFICES ASSUME reply.framing = "length" PROVE PageInv'
    BY <1>15 DEF TakeBody
  <2>1. CASE taken < 3
    BY <1>15, <1>a, <2>1 DEF TakeBody
  <2>2. CASE taken = 3 + index /\ length = reply.size /\ (Bad => index < reply.size)
    <3>1. CASE index + 1 = length
      <4>1. Bad <=> BadPage(taken - 2)
        <5>1. taken - 2 = reply.size /\ reply.size > 0
          BY <2>2, <3>1
        <5> QED BY <5>1 DEF Bad
      <4> QED BY <1>15, <2>2, <3>1, <4>1 DEF TakeBody, Flag
    <3>2. CASE index + 1 # length
      BY <1>15, <2>2, <3>2 DEF TakeBody, Flag
    <3> QED BY <3>1, <3>2
  <2> QED BY <1>15, <2>1, <2>2 DEF TakeBody
<1>16. ASSUME NEW loop \in Reading, Nothing(loop) PROVE PageInv' BY <1>16 DEF Nothing
<1>17. ASSUME NEW loop \in Reading, EndOfFile(loop) PROVE PageInv' BY <1>17 DEF EndOfFile
<1>18. ASSUME NEW loop \in {"length", "trailer"}, TakeLine(loop) PROVE PageInv' BY <1>18 DEF TakeLine
<1>20. CASE ProxyReplies BY <1>20 DEF ProxyReplies
<1>19. CASE Judge BY <1>19 DEF Judge
<1> QED
  BY <1>1, <1>2, <1>3, <1>4, <1>5, <1>6, <1>7, <1>8, <1>9, <1>10, <1>11, <1>12, <1>13, <1>14,
     <1>15, <1>16, <1>17, <1>18, <1>19, <1>20 DEF Next, Reader, Loop

(* And so does a chunked one.                                               *)
LEMMA ChunkNext == ASSUME TypeOK, HeaderInv, CodeInv, ChunkInv, Next PROVE ChunkInv'
<1>0. reply.size \in Nat /\ reply.framing \in {"chunked", "length", "none"}
  BY ReplyType DEF TypeOK
<1> USE <1>0, SameReply, LimitAssumption
        DEF TypeOK, CodeInv, HeaderInv, ChunkInv, Short, Late, Eof, Early, Reading, peer, net, time,
            read, Return, Leave, After, GoOn, Take
<1>1. CASE Send BY <1>1 DEF Send
<1>2. CASE Hangup BY <1>2 DEF Hangup
<1>3. CASE Tick BY <1>3 DEF Tick
<1>4. CASE ConnectFails BY <1>4 DEF ConnectFails
<1>5. CASE Connect BY <1>5 DEF Connect
<1>6. CASE ProxyDialog BY <1>6 DEF ProxyDialog
<1>7. CASE Handshake BY <1>7 DEF Handshake
<1>8. CASE HandshakeFails BY <1>8 DEF HandshakeFails
<1>9. CASE HandshakeWaits BY <1>9 DEF HandshakeWaits
<1>10. CASE Write BY <1>10 DEF Write
<1>11. CASE BrokenPipe BY <1>11 DEF BrokenPipe
<1>12. CASE TakeHeader BY <1>12 DEF TakeHeader
<1>13. CASE TakeChunk
  <2>1. CASE index + 1 = length /\ length = reply.size
    <3>1. Lacking => UnmarkedChunk(length)
      BY <2>1 DEF Lacking, UnmarkedChunk
    <3> QED BY <1>13, <2>1, <3>1 DEF TakeChunk, Flag
  <2>2. CASE ~(index + 1 = length /\ length = reply.size)
    BY <1>13, <2>2 DEF TakeChunk, Flag
  <2> QED BY <2>1, <2>2
<1>14. CASE GunzipFails
  <2>1. ~Lacking BY <1>14 DEF GunzipFails, Lacking
  <2> QED BY <1>14, <2>1 DEF GunzipFails
<1>15. CASE TakeBody BY <1>15 DEF TakeBody
<1>16. ASSUME NEW loop \in Reading, Nothing(loop) PROVE ChunkInv' BY <1>16 DEF Nothing
<1>17. ASSUME NEW loop \in Reading, EndOfFile(loop) PROVE ChunkInv' BY <1>17 DEF EndOfFile
<1>18. ASSUME NEW loop \in {"length", "trailer"}, TakeLine(loop) PROVE ChunkInv' BY <1>18 DEF TakeLine
<1>20. CASE ProxyReplies BY <1>20 DEF ProxyReplies
<1>19. CASE Judge BY <1>19 DEF Judge
<1> QED
  BY <1>1, <1>2, <1>3, <1>4, <1>5, <1>6, <1>7, <1>8, <1>9, <1>10, <1>11, <1>12, <1>13, <1>14,
     <1>15, <1>16, <1>17, <1>18, <1>19, <1>20 DEF Next, Reader, Loop

(* The whole invariant holds throughout.                                    *)
LEMMA Invariant == Spec => []Inv
<1>1. Inv /\ [Next]_vars => Inv'
  <2>1. Inv /\ Next => Inv'
    BY TypeNext, TimeNext, CodeNext, PageNext, ChunkNext DEF Inv
  <2>2. Inv /\ UNCHANGED vars => Inv'
    <3> SUFFICES ASSUME Inv, UNCHANGED vars PROVE Inv' OBVIOUS
    <3>1. (Bad' <=> Bad) /\ (Lacking' <=> Lacking) BY SameReply DEF vars
    <3>2. TypeOK' /\ TimeInv' BY DEF Inv, TypeOK, TimeInv, Reading, vars, peer, net, time, read
    <3>3. CodeInv' /\ HeaderInv' BY DEF Inv, CodeInv, HeaderInv, vars, peer, net, time, read
    <3>4. PageInv' /\ ChunkInv'
      BY <3>1 DEF Inv, PageInv, ChunkInv, Short, Late, Eof, vars, peer, net, time, read
    <3> QED BY <3>2, <3>3, <3>4 DEF Inv
  <2> QED BY <2>1, <2>2
<1> QED BY InvInit, <1>1, PTL DEF Spec

-----------------------------------------------------------------------------
(* Types, for every peer.                                                   *)
THEOREM TypeCorrect == Spec => []TypeOK
<1>1. Inv => TypeOK BY DEF Inv
<1> QED BY Invariant, <1>1, PTL

(* No URL is Online unless its server sent an accepted code.                *)
THEOREM OnlineAccepted == Spec => []OnlineIsAccepted
<1>1. Inv => OnlineIsAccepted BY DEF Inv, CodeInv, OnlineIsAccepted, Accepted
<1> QED BY Invariant, <1>1, PTL

(* Every loop that reads from a peer ends in time, however the peer sends.  *)
THEOREM ReadsInTime == Spec => []InTime
<1>1. Inv => InTime
  BY LimitAssumption DEF Inv, TypeOK, TimeInv, InTime, Reading
<1> QED BY Invariant, <1>1, PTL

(* Whatever the length of a page and however slow it is, the error mark is  *)
(* noticed with its last piece.                                             *)
THEOREM BadPageNoticed == Spec => []BadPageIsError
<1>1. Inv => BadPageIsError
  BY DEF Inv, PageInv, CodeInv, BadPageIsError, Bad
<1> QED BY Invariant, <1>1, PTL

(* The expected mark is missed in a chunk that came in time.                *)
THEOREM UnmarkedChunkNoticed == Spec => []UnmarkedChunkIsError
<1>1. Inv => UnmarkedChunkIsError
  <2> SUFFICES ASSUME Inv PROVE UnmarkedChunkIsError OBVIOUS
  <2>1. reply.size \in Nat /\ taken \in Nat /\ elapsed \in Nat
    BY ReplyType DEF Inv, TypeOK
  <2> QED
    BY <2>1, LimitAssumption DEF Inv, ChunkInv, CodeInv, Late, Lacking, UnmarkedChunkIsError
<1> QED BY Invariant, <1>1, PTL
=============================================================================
