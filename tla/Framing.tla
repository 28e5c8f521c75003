------------------------------ MODULE Framing ------------------------------
(***************************************************************************)
(* Messages over TCP: a length of two bytes, a type, a payload             *)
(* (src/core/protocol.c), written through buffers that may be full and     *)
(* read in pieces that begin and end anywhere.  One direction of one       *)
(* connection:                                                             *)
(*   up    dwc_send of a client to read_conn of the server                 *)
(*   down  send_msg and flush_conn of the server to dwc_recv of a client   *)
(*   web   a browser's frames through the WebSocket bridge to read_conn    *)
(* Which fields a message has is left out: of dw_decode's checks of the    *)
(* payload its size is kept, by type.                                      *)
(***************************************************************************)
EXTENDS Integers, Sequences

CONSTANTS
    Base,           \* 256
    MaxFrame,       \* DW_MAX_FRAME_LEN
    InBuf,          \* INBUF, and the size of DwClient.in
    OutBuf,         \* OUTBUF
    Room,           \* what the kernels and the network hold of a connection
    Sizes,          \* payload_size: the sizes of the payload, for every known type
    Dirs,
    MaxSent         \* bound: messages that are sent

Byte == 0 .. Base - 1

ASSUME FramingConstants ==
    /\ Base \in Nat \ {0, 1}
    /\ MaxFrame \in 1 .. Base * Base - 1
    /\ InBuf \in Nat /\ InBuf >= MaxFrame + 2
    /\ OutBuf \in Nat /\ OutBuf >= MaxFrame + 2
    /\ Room \in Nat \ {0}
    /\ DOMAIN Sizes \subseteq Byte /\ \A t \in DOMAIN Sizes : Sizes[t] \subseteq Nat
    /\ Dirs \subseteq {"up", "down", "web"}
    /\ MaxSent \in Nat

VARIABLES
    dir,            \* the direction; never changes
    out,            \* Conn.out; what dwc_send still has to write; what the WebSocket holds
    held,           \* the bridge's pending, while its TCP side is not connected
    bridged,        \* the bridge's tcpReady; TRUE where there is no bridge
    wire,           \* bytes on their way
    in,             \* Conn.in, DwClient.in
    reading,        \* the receiver: "decode", "recv", "refused" (a malformed frame), "closed"
    link,           \* the sender's socket: "open", "broken", "closed"
    dropped,        \* history: send_msg found OUTBUF full and dropped its content
    sent,           \* history: the messages sent, each with the number of bytes up to its end
    handled         \* history: the messages handed to the receiver's handler

vars == <<dir, out, held, bridged, wire, in, reading, link, dropped, sent, handled>>

Init ==
    /\ dir \in Dirs
    /\ out = << >> /\ held = << >> /\ wire = << >> /\ in = << >>
    /\ bridged = (dir # "web")
    /\ reading = "decode"
    /\ link = "open"
    /\ dropped = FALSE
    /\ sent = << >> /\ handled = << >>

-----------------------------------------------------------------------------
(* The format.                                                                 *)

\* A type byte and a payload of a size that fits the type.
Valid(body) ==
    /\ Len(body) \in 1 .. MaxFrame
    /\ body[1] \in DOMAIN Sizes
    /\ Len(body) - 1 \in Sizes[body[1]]
Bodies == {body \in UNION {[1 .. n -> Byte] : n \in 1 .. MaxFrame} : Valid(body)}

\* dw_encode
Frame(body) == <<Len(body) % Base, Len(body) \div Base>> \o body

\* dw_decode: 0, -1, or a body and how much of the buffer it took.
FrameLen(buf) == buf[1] + Base * buf[2]
BadLen(buf) == Len(buf) >= 2 /\ FrameLen(buf) \notin 1 .. MaxFrame
\* Mutant: a frame is complete only when something follows it.
CompleteLate(buf) == Len(buf) >= 2 /\ ~BadLen(buf) /\ Len(buf) > 2 + FrameLen(buf)
Complete(buf) == Len(buf) >= 2 /\ ~BadLen(buf) /\ Len(buf) >= 2 + FrameLen(buf)
Body(buf) == SubSeq(buf, 3, 2 + FrameLen(buf))
\* Mutant: the length is taken to include its own two bytes.
AfterShort(buf) == SubSeq(buf, 1 + FrameLen(buf), Len(buf))
After(buf) == SubSeq(buf, 3 + FrameLen(buf), Len(buf))

-----------------------------------------------------------------------------
(* The sender.                                                                 *)

Least(a, b) == IF a < b THEN a ELSE b
Fits(bytes) == Least(Len(bytes), Room - Len(wire))
\* Writes as much of bytes as there is room for, and keeps the rest.
Write(bytes) ==
    /\ wire' = wire \o SubSeq(bytes, 1, Fits(bytes))
    /\ out' = SubSeq(bytes, Fits(bytes) + 1, Len(bytes))

Sent == IF sent = << >> THEN 0 ELSE sent[Len(sent)].upto
Note(body) == sent' = Append(sent, [body |-> body, upto |-> Sent + Len(Frame(body))])

\* send_msg: a connection that was given up already still gets its bytes written.
ServerSends(body) ==
    /\ dir = "down"
    /\ link # "closed"
    /\ IF Len(out) + Len(Frame(body)) > OutBuf
       THEN /\ out' = << >> /\ dropped' = TRUE
            /\ UNCHANGED <<wire, sent>>
       ELSE /\ IF link = "open" THEN Write(out \o Frame(body)) ELSE out' = << >> /\ UNCHANGED wire
            /\ Note(body)
            /\ UNCHANGED dropped
    /\ UNCHANGED <<dir, held, bridged, in, reading, link, handled>>

\* dwc_send, which returns when everything is written.
ClientSends(body) ==
    /\ dir = "up"
    /\ link = "open"
    /\ out = << >>
    /\ Write(Frame(body))
    /\ Note(body)
    /\ UNCHANGED <<dir, held, bridged, in, reading, link, dropped, handled>>

\* DeadweightClient.send
BrowserSends(body) ==
    /\ dir = "web"
    /\ link = "open"
    /\ out' = out \o Frame(body)
    /\ Note(body)
    /\ UNCHANGED <<dir, held, bridged, wire, in, reading, link, dropped, handled>>

\* Mutant: waits for room for all of it.
FlushWhole ==
    /\ dir # "web"
    /\ link = "open"
    /\ out # << >>
    /\ Len(wire) + Len(out) <= Room
    /\ Write(out)
    /\ UNCHANGED <<dir, held, bridged, in, reading, link, dropped, sent, handled>>

\* flush_conn after POLLOUT, and the loop of dwc_send.
Flush ==
    /\ dir # "web"
    /\ link = "open"
    /\ out # << >>
    /\ Len(wire) < Room
    /\ Write(out)
    /\ UNCHANGED <<dir, held, bridged, in, reading, link, dropped, sent, handled>>

\* send fails: the server condemns the connection, a client's caller closes it.
SendFails ==
    /\ dir # "web"
    /\ link = "open"
    /\ out # << >>
    /\ link' = "broken"
    /\ out' = << >>
    /\ UNCHANGED <<dir, held, bridged, wire, in, reading, dropped, sent, handled>>

\* Bytes of the WebSocket reach the bridge, which writes or keeps them.
BridgeTakes ==
    /\ dir = "web"
    /\ link = "open"
    /\ \E k \in 1 .. Len(out) :
         /\ out' = SubSeq(out, k + 1, Len(out))
         /\ IF bridged THEN wire' = wire \o SubSeq(out, 1, k) /\ UNCHANGED held
                       ELSE held' = held \o SubSeq(out, 1, k) /\ UNCHANGED wire
    /\ UNCHANGED <<dir, bridged, in, reading, link, dropped, sent, handled>>

\* The bridge's TCP side is connected: what came before goes first.
BridgeConnects ==
    /\ ~bridged
    /\ link = "open"
    /\ bridged' = TRUE
    /\ wire' = held
    /\ held' = << >>
    /\ UNCHANGED <<dir, out, in, reading, link, dropped, sent, handled>>

\* conn_close after a last flush_conn, dwc_close, a WebSocket that goes away.
Close ==
    /\ link # "closed"
    /\ link' = "closed"
    /\ wire' = IF link = "open" /\ dir = "down" THEN wire \o SubSeq(out, 1, Fits(out)) ELSE wire
    /\ out' = << >> /\ held' = << >>
    /\ UNCHANGED <<dir, bridged, in, reading, dropped, sent, handled>>

-----------------------------------------------------------------------------
(* The receiver.                                                               *)

\* recv into what is left of the buffer returns some of the bytes that have arrived.
Receive ==
    /\ reading = "recv"
    /\ \E k \in 1 .. Least(Len(wire), InBuf - Len(in)) :
         /\ in' = in \o SubSeq(wire, 1, k)
         /\ wire' = SubSeq(wire, k + 1, Len(wire))
    /\ reading' = "decode"
    /\ UNCHANGED <<dir, out, held, bridged, link, dropped, sent, handled>>

\* recv returns 0 or fails.  With no room left in the buffer it returns 0, too.
Ends ==
    /\ reading = "recv"
    /\ link # "open" \/ Len(in) = InBuf
    /\ reading' = "closed"
    /\ UNCHANGED <<dir, out, held, bridged, wire, in, link, dropped, sent, handled>>

\* One turn of the loop of read_conn or dwc_recv.  The server's handler may condemn the
\* connection, which ends the loop.
Decode ==
    /\ reading = "decode"
    /\ IF BadLen(in) \/ (Complete(in) /\ ~Valid(Body(in)))
       THEN reading' = "refused" /\ UNCHANGED <<in, handled>>
       ELSE IF Complete(in)
       THEN /\ handled' = Append(handled, Body(in))
            /\ in' = After(in)
            /\ reading' \in IF dir = "down" THEN {"decode"} ELSE {"decode", "closed"}
       ELSE reading' = "recv" /\ UNCHANGED <<in, handled>>
    /\ UNCHANGED <<dir, out, held, bridged, wire, link, dropped, sent>>

-----------------------------------------------------------------------------
Sends ==
    /\ Len(sent) < MaxSent
    /\ \E body \in Bodies : ServerSends(body) \/ ClientSends(body) \/ BrowserSends(body)

Next ==
    \/ Sends
    \/ Flush \/ SendFails \/ Close
    \/ BridgeTakes \/ BridgeConnects
    \/ Receive \/ Ends \/ Decode

Spec == Init /\ [][Next]_vars

\* Whoever has written bytes goes on writing, the network carries them, receivers read.
FairSpec ==
    /\ Spec
    /\ WF_vars(Flush) /\ WF_vars(BridgeTakes) /\ WF_vars(BridgeConnects)
    /\ WF_vars(Receive) /\ WF_vars(Decode)

-----------------------------------------------------------------------------
(* Properties.                                                                 *)

\* However the bytes were split and joined, the receiver handles the messages that were
\* sent, in order and without a gap, and refuses none of them.  After send_msg has dropped
\* half a frame this is lost: what is sent until the connection is closed is read from the
\* middle of that frame on.
Undistorted ==
    ~dropped => /\ reading # "refused"
                /\ Len(handled) <= Len(sent)
                /\ \A i \in 1 .. Len(handled) : handled[i] = sent[i].body

\* recv is never called with an empty buffer, which would look like the end of the
\* connection: whatever waits for more is shorter than a frame (main.c:649 cannot happen).
RoomToRead == reading = "recv" => Len(in) < InBuf

\* Whatever was sent is handled in the end, unless one side has given the connection up.
Arrives ==
    \A n \in 1 .. MaxSent :
      Len(sent) >= n ~> Len(handled) >= n \/ link # "open" \/ dropped \/ reading = "closed"

=============================================================================
