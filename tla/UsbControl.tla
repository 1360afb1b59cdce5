----------------------------- MODULE UsbControl -----------------------------
(* Control transfers of the USB stack, on the device's side: the endpoint  *)
(* buffers and interrupt bits of the controller, USBHwISR() and            *)
(* USBHandleControlTransfer(), with the handlers behind them.  A handler   *)
(* is one action; the host acts between any two endpoints that USBHwISR()  *)
(* looks at, and for as long as nobody calls it.                           *)
(*                                                                         *)
(* A SETUP packet is a record with the fields type, recip, dir, op, value, *)
(* index and len (bmRequestType, bRequest, ..., wLength), and the id of    *)
(* the host's transfer, of which the code knows nothing.                   *)
EXTENDS VendorRequests, UsbRequests

CONSTANT MaxPacket       \* MAX_PACKET_SIZE0

VARIABLES
  outbuf,     \* packets in EP0's OUT buffer: none, or one
  inbuf,      \* validated packets in EP0's IN buffer: none, or one
  stalled,    \* whether EP0 answers with STALL
  epint,      \* endpoint interrupt bits that are set
  scan,       \* the endpoint that USBHwISR() looks at next, "idle" outside
  Setup,      \* the SETUP packet being served
  iResidue,   \* bytes to come or to go
  pbData,     \* the bytes of an answer that are still to go
  store,      \* the bytes of an OUT request that have come
  fw,         \* the firmware
  usb,        \* the stack's configuration
  served,     \* history: the transfer whose handler ran last, and its answer
  late        \* history: this SETUP was served before an older IN interrupt

controlVars == <<Setup, iResidue, pbData, store, fw, usb, served>>
endpointVars == <<outbuf, inbuf, stalled, epint, scan, late>>
deviceVars == <<controlVars, endpointVars>>

SetupPacket(s) == [setup |-> TRUE, request |-> s, bytes |-> <<>>]
DataPacket(b) == [setup |-> FALSE, request |-> <<>>, bytes |-> b]

Smaller(a, b) == IF a < b THEN a ELSE b

NoSetup == [id |-> 0, type |-> "VENDOR", recip |-> "DEVICE", dir |-> "out", op |-> "PING",
            value |-> 0, index |-> 0, len |-> 0]

DeviceInit(f) ==
  /\ outbuf = <<>> /\ inbuf = <<>> /\ stalled = FALSE /\ epint = {} /\ scan = "idle"
  /\ Setup = NoSetup /\ iResidue = 0 /\ pbData = <<>> /\ store = <<>>
  /\ fw = f /\ usb = PoweredUsb /\ late = FALSE
  /\ served = [id |-> 0, times |-> 0, ok |-> TRUE, answer |-> <<>>]

-----------------------------------------------------------------------------
(* The handlers                                                            *)

(* _HandleRequest(): what the handler of the request's type returns.       *)
_HandleRequest(s, d) ==
  IF s.type = "VENDOR" /\ s.op # "0xFF"
  THEN LET h == vendor_request_handler(fw, [op |-> s.op, value |-> s.value,
                                            index |-> s.index, data |-> d])
       IN  [ok |-> h.ok, fw |-> h.fw, usb |-> usb, answer |-> h.data]
  ELSE LET h == IF s.type = "VENDOR" THEN USBFilterOsVendorMessage(usb, s)
                ELSE IF s.type = "STANDARD" THEN USBHandleStandardRequest(usb, s)
                ELSE Rejected(usb)
       IN  [ok |-> h.ok, fw |-> fw, usb |-> h.usb, answer |-> h.data]

(* The handler runs, and the run is recorded.                              *)
Handled(s, h) ==
  /\ fw' = h.fw /\ usb' = h.usb
  /\ served' = [id |-> s.id, times |-> IF served.id = s.id THEN served.times + 1 ELSE 1,
                ok |-> h.ok, answer |-> h.answer]

(* USBHwEPWrite() of EP0: an IN buffer cannot be validated while a SETUP   *)
(* packet waits; what happens to a full one is up to the controller.       *)
USBHwEPWrite(packet, waiting) ==
  \/ waiting /\ inbuf' = inbuf
  \/ ~waiting /\ inbuf' = <<packet>>
  \/ ~waiting /\ inbuf # <<>> /\ inbuf' = inbuf

(* USBHwEPRead() takes a packet and empties the OUT buffer.                *)
USBHwEPRead == outbuf' = <<>>

StallControlPipe == stalled' = TRUE

(* Mutant: a packet as long as what is left. *)
ChunkAll(n) == n

Chunk(n) == Smaller(MaxPacket, n)

(* DataIn() with n bytes left in d.  Bytes past the answer are whatever    *)
(* the data store holds.                                                   *)
DataIn(d, n, waiting) ==
  LET chunk == Chunk(n)
  IN  /\ USBHwEPWrite([i \in 1 .. chunk |-> IF i <= Len(d) THEN d[i] ELSE 0], waiting)
      /\ pbData' = SubSeq(d, chunk + 1, Len(d))
      /\ iResidue' = n - chunk

(* FLASH and SET_ISP do not come back from the handler.                    *)
Left(h) == h.fw.image # "firmware"

(* Mutant: the data stage goes on where the last transfer left it.         *)
BeginStale(s, n) == iResidue' = iResidue + n /\ store' = store

Begin(s, n) == iResidue' = n /\ store' = <<>>

(* Mutant: the answer goes out whole, whatever the host asked for. *)
OfferedWhole(n, wLength) == n

Offered(n, wLength) == Smaller(n, wLength)

(* A SETUP packet: the transfer starts anew.                               *)
HandleSetup(s) ==
  /\ Setup' = s
  /\ IF s.len = 0 \/ s.dir = "in"
     THEN LET h == _HandleRequest(s, <<>>)
          IN  /\ Handled(s, h)
              /\ store' = <<>>
              /\ \/ h.ok /\ ~Left(h) /\ stalled' = stalled
                    /\ DataIn(h.answer, Offered(Len(h.answer), s.len), FALSE)
                 \/ h.ok /\ Left(h) /\ UNCHANGED <<stalled, inbuf, pbData, iResidue>>
                 \/ ~h.ok /\ StallControlPipe /\ iResidue' = s.len /\ UNCHANGED <<inbuf, pbData>>
     ELSE /\ Begin(s, s.len)
          /\ pbData' = <<>>
          /\ UNCHANGED <<stalled, inbuf, fw, usb, served>>

(* Mutant: the empty packet of a status stage counts as data. *)
ExpectingAny(n) == n >= 0

Expecting(n) == n > 0

(* A packet of data, or the empty one of a status stage.                   *)
HandleData(b) ==
  IF Expecting(iResidue)
  THEN LET n == iResidue - Len(b)
           d == store \o b
       IN  /\ store' = d
           /\ Setup' = Setup
           /\ IF n = 0
              THEN LET h == _HandleRequest(Setup, d)
                   IN  /\ Handled(Setup, h)
                       /\ \/ h.ok /\ stalled' = stalled /\ DataIn(<<>>, 0, FALSE)
                          \/ ~h.ok /\ StallControlPipe /\ iResidue' = n /\ UNCHANGED <<inbuf, pbData>>
              ELSE iResidue' = n /\ UNCHANGED <<stalled, inbuf, pbData, fw, usb, served>>
  ELSE UNCHANGED <<controlVars, stalled, inbuf>>

-----------------------------------------------------------------------------
(* USBHwISR(), as an interrupt or from handle_usb(): EP0 OUT, then EP0 IN  *)

Running == fw.image = "firmware"

IsrOut ==
  /\ Running /\ scan = "idle" /\ epint # {}
  /\ scan' = "in"
  /\ \/ /\ "out" \in epint
        /\ epint' = epint \ {"out"}
        /\ USBHwEPRead
        /\ \/ /\ outbuf[1].setup
              /\ HandleSetup(outbuf[1].request)
              /\ late' = ("in" \in epint)
           \/ /\ ~outbuf[1].setup
              /\ HandleData(outbuf[1].bytes)
              /\ late' = late
     \/ /\ "out" \notin epint
        /\ UNCHANGED <<controlVars, outbuf, inbuf, stalled, epint, late>>

(* An IN packet has gone: send the next one, be it an empty one.           *)
Sent ==
  /\ epint' = epint \ {"in"}
  /\ DataIn(pbData, iResidue, outbuf # <<>> /\ outbuf[1].setup)
  /\ store' = IF Setup.dir = "out" /\ iResidue > 0
              THEN store \o [i \in 1 .. Chunk(iResidue) |-> 0] ELSE store

IsrIn ==
  /\ Running /\ scan = "in"
  /\ scan' = "idle"
  /\ \/ "in" \in epint /\ Sent
     \/ "in" \notin epint /\ UNCHANGED <<inbuf, pbData, iResidue, epint, store>>
  /\ UNCHANGED <<Setup, fw, usb, served, outbuf, stalled, late>>

-----------------------------------------------------------------------------
(* What the controller does with the host's packets                        *)

(* A SETUP is always taken: it replaces what the OUT buffer holds, empties *)
(* the IN buffer and ends a stall.                                         *)
TakeSetup(s) ==
  /\ outbuf' = <<SetupPacket(s)>> /\ inbuf' = <<>> /\ stalled' = FALSE
  /\ epint' = epint \cup {"out"}
  /\ UNCHANGED <<scan, late, controlVars>>

TakeOut(b) ==
  /\ ~stalled /\ outbuf = <<>>
  /\ outbuf' = <<DataPacket(b)>>
  /\ epint' = epint \cup {"out"}
  /\ UNCHANGED <<inbuf, stalled, scan, late, controlVars>>

GiveIn ==
  /\ ~stalled /\ inbuf # <<>>
  /\ inbuf' = <<>>
  /\ epint' = epint \cup {"in"}
  /\ UNCHANGED <<outbuf, stalled, scan, late, controlVars>>

(* A bus reset: HandleUsbReset() does nothing about it.                    *)
ResetBus ==
  /\ outbuf' = <<>> /\ inbuf' = <<>> /\ stalled' = FALSE /\ epint' = {}
  /\ usb' = BusReset(usb)
  /\ UNCHANGED <<scan, late, Setup, iResidue, pbData, store, fw, served>>
=============================================================================
