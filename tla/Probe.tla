-------------------------------- MODULE Probe --------------------------------
(***************************************************************************)
(* One probe of a URL (src/https.cpp, checkSSLAccess): the connection, the *)
(* dialogue with a proxy, the TLS handshake, the request, and the loops    *)
(* that read the reply from a non-blocking socket until its end, the end   *)
(* of the connection or the time limit, whichever comes first.             *)
(*                                                                         *)
(* A reply is a stream of items: the status line, the header that tells    *)
(* how the page is framed, the empty line, and what Body says.  The code   *)
(* reads bytes; here an iteration takes an item, a line or a piece of the  *)
(* page.  The peer sends as many items as it likes, as slowly as it likes, *)
(* and may close at any point.  A page is shorter than the 4096 bytes of   *)
(* temp_buffer.  Whether a socket is closed is the business of Server.     *)
(*                                                                         *)
(* Time is counted in ticks from the start of the handshake, then from     *)
(* that of the reply, and a loop goes round at least once in every tick.   *)
(***************************************************************************)
EXTENDS Integers, Sequences

CONSTANTS
    Timeout,  \* iTimeout, the "timeout" of the configuration
    SslLimit, \* the 10 seconds given to the handshake
    Codes,    \* result codes a reply may have, "000" for none at all
    Pages,    \* the pages, each a sequence of pieces
    Sizes     \* Content-Length, or the length of the first chunk

(* The URLs: only for https does a proxy make a difference here. *)
Urls == {u \in [https : BOOLEAN, proxied : BOOLEAN] : u.proxied => u.https}

(* The marks the configuration of a URL may look for in its page. *)
Marks == {"error", "expected"}
Accepted == {"200", "401", "302", "301"}

ASSUME LimitAssumption == Timeout \in Nat /\ SslLimit \in Nat
ASSUME CodeAssumption == Codes \subseteq STRING
ASSUME PageAssumption == Pages \subseteq Seq({"plain"} \cup Marks) /\ Sizes \subseteq Nat

(* What a server may answer.  Compression is looked at in chunks only, and  *)
(* a reply of neither framing has no size.                                  *)
Replies == {r \in [code : Codes, framing : {"chunked", "length", "none"}, gzip : BOOLEAN,
                   size : Sizes, page : Pages] :
              /\ r.size <= Len(r.page)
              /\ r.gzip => r.framing = "chunked"
              /\ r.framing = "none" => r.size = 0}

VARIABLES
    url,      \* what is probed
    marks,    \* the marks this URL has
    reply,    \* what the server answers
    arrived,  \* items of the reply the socket has received
    ended,    \* the peer has closed its end
    proxy,    \* what has come from a proxy: nothing ("silent"), something that
              \* nobody takes for an answer ("babbled"), an answer ("answered"),
              \* the end of the connection ("closed")
    pc,       \* where checkSSLAccess is
    elapsed,  \* the clock of the phase under way
    polled,   \* 1 when its loop has been round in this tick
    taken,    \* items read
    code,     \* resultcode
    framing,  \* what the headers read so far say of the page
    length,   \* contentlength or chunklength
    index,    \* bf_index: pieces read by the loop under way
    iapperror,
    ret

peer == <<url, marks, reply>>
net == <<arrived, ended, proxy>>
time == <<elapsed, polled>>
read == <<taken, code, framing, length, index, iapperror>>
vars == <<peer, net, pc, time, read, ret>>

Init == /\ url \in Urls
        /\ marks \in SUBSET Marks
        /\ reply \in Replies
        /\ arrived = 0 /\ ended = 0 /\ proxy = "silent"
        /\ pc = "connect"
        /\ elapsed = 0 /\ polled = 0
        /\ taken = 0 /\ code = "000" /\ framing = "none"
        /\ length = 0 /\ index = 0 /\ iapperror = 0
        /\ ret = 0

-----------------------------------------------------------------------------
(* The items after the empty line. *)
Body(r) == IF r.framing = "chunked"
           THEN <<"line">> \o SubSeq(r.page, 1, r.size) \o <<"line">>
                           \o SubSeq(r.page, r.size + 1, Len(r.page))
           ELSE r.page

Items(r) == 3 + Len(Body(r))

Reading == {"headers", "length", "chunk", "trailer", "body"}
Ended == pc \in {"done", "exited"}

(* The peer sends the next item, or closes. *)
Send == /\ pc \in Reading
        /\ ended = 0 /\ arrived < Items(reply)
        /\ arrived' = arrived + 1
        /\ UNCHANGED <<peer, ended, proxy, pc, time, read, ret>>

Hangup == /\ pc \in Reading
          /\ ended = 0
          /\ ended' = 1
          /\ UNCHANGED <<peer, arrived, proxy, pc, time, read, ret>>

(* What one read gets of the proxy's reply to CONNECT.  It is an answer     *)
(* only with "HTTP/1." in it, whatever its code; another protocol's is not, *)
(* nor are the two halves of a line that was cut there.                     *)
ProxyReplies == /\ pc = "proxy"
                /\ proxy \in {"silent", "babbled"}
                /\ proxy' \in {"babbled", "answered", "closed"}
                /\ UNCHANGED <<peer, arrived, ended, pc, time, read, ret>>

Tick == /\ pc \in Reading \cup {"ssl"}
        /\ polled = 1
        /\ elapsed' = elapsed + 1 /\ polled' = 0
        /\ UNCHANGED <<peer, net, pc, read, ret>>

-----------------------------------------------------------------------------
Return(value) == pc' = "done" /\ ret' = value

(* w_smart_connect: no socket, no such host, or nobody listens. *)
ConnectFails == /\ pc = "connect"
                /\ \E value \in {-2, -1} : Return(value)
                /\ UNCHANGED <<peer, net, time, read>>

Connect == /\ pc = "connect"
           /\ pc' = IF url.https /\ url.proxied THEN "proxy" ELSE "ssl"
           /\ UNCHANGED <<peer, net, time, read, ret>>

(* A slip: the end of the connection is taken for nothing to read.          *)
ProxyDialogDeaf == /\ pc = "proxy"
                   /\ proxy = "answered"
                   /\ pc' = "ssl"
                   /\ UNCHANGED <<peer, net, time, read, ret>>

(* pre_https_proxy_dialog: an answer, or the end of the connection, ends    *)
(* its loop.  Until then it goes round without a look at the time.          *)
ProxyDialog == /\ pc = "proxy"
               /\ proxy \in {"answered", "closed"}
               /\ pc' = "ssl"
               /\ UNCHANGED <<peer, net, time, read, ret>>

(* The handshake succeeds.  Without TLS there is none, and w_ssl_connect    *)
(* returns a variable it never wrote.                                       *)
Handshake == /\ pc = "ssl"
             /\ url.https => elapsed <= SslLimit
             /\ proxy # "closed"
             /\ pc' = "write"
             /\ UNCHANGED <<peer, net, time, read, ret>>

(* It fails, or the variable happens to be negative. *)
HandshakeFails == /\ pc = "ssl"
                  /\ Return(-1)
                  /\ UNCHANGED <<peer, net, time, read>>

(* SSL_ERROR_WANT_READ and the like, or a shutdown: another attempt. *)
HandshakeWaits == /\ pc = "ssl" /\ url.https
                  /\ elapsed <= SslLimit
                  /\ polled' = 1
                  /\ UNCHANGED <<peer, net, pc, elapsed, read, ret>>

(* The request is written and the clock starts again. *)
Write == /\ pc = "write"
         /\ pc' = "headers"
         /\ elapsed' = 0 /\ polled' = 0
         /\ UNCHANGED <<peer, net, read, ret>>

BrokenPipe == /\ pc = "write"
              /\ Return(-1)
              /\ UNCHANGED <<peer, net, time, read>>

-----------------------------------------------------------------------------
(* The loops.  Each leaves for the next one. *)
After(loop) == CASE loop = "headers" -> IF framing' = "chunked" THEN "length" ELSE "body"
                 [] loop = "length"  -> "chunk"
                 [] loop = "chunk"   -> "trailer"
                 [] loop = "trailer" -> "judge"
                 [] loop = "body"    -> "judge"

Leave(loop) == pc' = After(loop) /\ index' = 0

(* A slip: the time is looked at only when there was nothing to read. *)
GoOnReading(loop) ==
    IF elapsed > Timeout /\ taken = arrived THEN Leave(loop) ELSE pc' = loop /\ index' = index + 1

(* The end of an iteration: time to give up, or round again. *)
GoOn(loop) == IF elapsed > Timeout THEN Leave(loop) ELSE pc' = loop /\ index' = index + 1

(* A slip: a byte that never came is taken. *)
TakeAnything == taken' = taken + 1 /\ polled' = 1

Take == taken < arrived /\ taken' = taken + 1 /\ polled' = 1

(* Nothing to read: EAGAIN. *)
Nothing(loop) ==
    /\ pc = loop
    /\ taken = arrived /\ ended = 0
    /\ polled' = 1
    /\ UNCHANGED <<peer, net, elapsed, taken, code, framing, length, iapperror, ret>>
    /\ IF elapsed > Timeout THEN Leave(loop) ELSE UNCHANGED <<pc, index>>

(* A slip: the end of the connection is taken for nothing to read, and the  *)
(* loop goes round without a look at the time.                              *)
EndOfFileSpinning(loop) ==
    /\ pc = loop
    /\ taken = arrived /\ ended = 1
    /\ UNCHANGED vars

(* Everything has been read and the peer is gone: read returns 0. *)
EndOfFile(loop) ==
    /\ pc = loop
    /\ taken = arrived /\ ended = 1
    /\ UNCHANGED <<peer, net, time, taken, code, framing, length, iapperror, ret>>
    /\ Leave(loop)

(* The status line, the header about the framing, the empty line. *)
TakeHeader ==
    /\ pc = "headers"
    /\ Take
    /\ code' = IF taken = 0 THEN reply.code ELSE code
    /\ framing' = IF taken = 1 THEN reply.framing ELSE framing
    /\ length' = IF taken = 1 /\ reply.framing = "length" THEN reply.size ELSE length
    /\ IF taken = 2 THEN Leave("headers") ELSE GoOn("headers")
    /\ UNCHANGED <<peer, net, elapsed, iapperror, ret>>

(* The line before a chunk: its length.  Only the first one is used; the    *)
(* empty line after the first chunk is taken for that of another.           *)
TakeLine(loop) ==
    /\ pc = loop
    /\ Take
    /\ length' = IF loop = "length" /\ taken = 3 THEN reply.size ELSE 0
    /\ UNCHANGED <<peer, net, elapsed, code, framing, iapperror, ret>>
    /\ Leave(loop)

Pieces(n) == {reply.page[i] : i \in 1..n}

(* A slip: found and not found swapped. *)
UnmarkedChunkSwapped(n) == "expected" \in marks /\ "expected" \in Pieces(n)

(* The chunk lacks the mark it should have: somewhere, or when it is        *)
(* compressed and read line by line, in some line.                          *)
UnmarkedChunk(n) ==
    "expected" \in marks /\ IF reply.gzip THEN Pieces(n) # {"expected"} ELSE "expected" \notin Pieces(n)

(* The page has the mark it should not have. *)
BadPage(n) == "error" \in marks /\ "error" \in Pieces(n)

Flag(condition) == iapperror' = IF condition THEN 1 ELSE iapperror

(* A piece of the first chunk; with the last one its mark is looked for. *)
TakeChunk ==
    /\ pc = "chunk"
    /\ Take
    /\ UNCHANGED <<peer, net, elapsed, code, framing, length, ret>>
    /\ IF index + 1 = length
       THEN Flag(UnmarkedChunk(length)) /\ Leave("chunk")
       ELSE UNCHANGED iapperror /\ GoOn("chunk")

(* The last piece of a chunk that says it is compressed, but gunzip fails:  *)
(* f.txt is an old one, or there is none and the process exits.             *)
GunzipFails ==
    /\ pc = "chunk" /\ reply.gzip
    /\ Take
    /\ index + 1 = length
    /\ UNCHANGED <<peer, net, elapsed, code, framing, length, ret>>
    /\ \/ iapperror' \in (IF "expected" \in marks THEN {0, 1} ELSE {0}) /\ Leave("chunk")
       \/ pc' = "exited" /\ UNCHANGED <<iapperror, index>>

(* A slip: the pieces are compared with the length before the last one      *)
(* counts.                                                                  *)
TakeBodyLate ==
    /\ pc = "body"
    /\ Take
    /\ UNCHANGED <<peer, net, elapsed, code, framing, length, ret>>
    /\ LET bad == index = length /\ BadPage(taken - 2) IN
         /\ Flag(bad)
         /\ IF bad THEN Leave("body") ELSE GoOn("body")

(* A piece of a page that is not chunked: with the one that makes its       *)
(* length the other mark is looked for, and only when it is found does that *)
(* end the loop.                                                            *)
TakeBody ==
    /\ pc = "body"
    /\ Take
    /\ UNCHANGED <<peer, net, elapsed, code, framing, length, ret>>
    /\ LET bad == index + 1 = length /\ BadPage(taken - 2) IN
         /\ Flag(bad)
         /\ IF bad THEN Leave("body") ELSE GoOn("body")

(* A slip: a reply without a result code is not an error. *)
JudgeSilence == /\ pc = "judge"
                /\ Return(IF code \in Accepted \cup {"000"} /\ iapperror = 0 THEN 0 ELSE -1)
                /\ UNCHANGED <<peer, net, time, read>>

(* The end of http_dialog: an accepted code and no error of the             *)
(* application.                                                             *)
Judge == /\ pc = "judge"
         /\ Return(IF code \in Accepted /\ iapperror = 0 THEN 0 ELSE -1)
         /\ UNCHANGED <<peer, net, time, read>>

-----------------------------------------------------------------------------
Loop(loop) == Nothing(loop) \/ EndOfFile(loop)

Reader == \/ ConnectFails \/ Connect \/ ProxyDialog
          \/ Handshake \/ HandshakeFails \/ HandshakeWaits
          \/ Write \/ BrokenPipe
          \/ TakeHeader \/ TakeChunk \/ GunzipFails \/ TakeBody
          \/ \E loop \in Reading : Loop(loop)
          \/ \E loop \in {"length", "trailer"} : TakeLine(loop)
          \/ Judge

Next == Reader \/ Tick \/ Send \/ Hangup \/ ProxyReplies

(* The thread runs and time passes.  Nothing makes the peer or the proxy    *)
(* send anything.                                                           *)
Fairness == WF_vars(Reader) /\ WF_vars(Tick)

Spec == Init /\ [][Next]_vars /\ Fairness

-----------------------------------------------------------------------------
TypeOK ==
    /\ url \in Urls
    /\ marks \in SUBSET Marks
    /\ reply \in Replies
    /\ arrived \in Nat /\ ended \in 0..1 /\ proxy \in {"silent", "babbled", "answered", "closed"}
    /\ pc \in Reading \cup {"connect", "proxy", "ssl", "write", "judge", "done", "exited"}
    /\ elapsed \in Nat /\ polled \in 0..1
    /\ taken \in Nat /\ taken <= arrived
    /\ code \in Codes \cup {"000"}
    /\ framing \in {"chunked", "length", "none"}
    /\ length \in Nat /\ index \in Nat
    /\ iapperror \in 0..1
    /\ ret \in {-2, -1, 0}

(* No URL is Online unless its server sent an accepted code, however the    *)
(* loops were left and whatever was read or not after the status line.      *)
OnlineIsAccepted == pc = "done" /\ ret = 0 => taken > 0 /\ reply.code \in Accepted

(* A page with a Content-Length, read that far, is an error when it has the *)
(* mark of one, even if the time is over before its connection ends.        *)
BadPageIsError ==
    pc = "done" /\ reply.framing = "length" /\ taken >= 3 + reply.size /\ reply.size > 0
        /\ BadPage(reply.size) => ret # 0

(* A chunk received in time is an error when it lacks the expected mark.    *)
UnmarkedChunkIsError ==
    pc = "done" /\ reply.framing = "chunked" /\ elapsed <= Timeout
        /\ taken >= 4 + reply.size /\ reply.size > 0
        /\ "expected" \in marks /\ "expected" \notin Pieces(reply.size) /\ ~reply.gzip => ret # 0

(* A slow peer keeps a probe no longer than the limits, but for one tick of *)
(* every loop, however steadily it sends.                                   *)
InTime == /\ pc = "ssl" => elapsed <= SslLimit + 1
          /\ pc \in Reading \cup {"judge"} => elapsed <= Timeout + 4

(* Every probe ends, whatever its peer does, if there is no proxy or if the *)
(* proxy gives an answer or closes.                                         *)
EveryProbeEnds ==
    /\ pc = "connect" /\ ~(url.https /\ url.proxied) ~> Ended
    /\ pc = "proxy" /\ proxy \in {"answered", "closed"} ~> Ended

(* "The Control Thread runs every 40 seconds.  [...] Check each one of the  *)
(* URLs" (server.cpp, its head): no probe keeps it for ever.                *)
NoProbeHangs == pc = "connect" ~> Ended
=============================================================================
