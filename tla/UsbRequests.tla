---------------------------- MODULE UsbRequests ----------------------------
(* The standard requests of the USB stack and the Windows descriptors it   *)
(* answers among the vendor requests.  A request is a SETUP packet as a    *)
(* record: recip, op (bRequest), value, index and len (wLength).  The      *)
(* stack's state is the record usb: configuration (bConfiguration),        *)
(* address, configured (the status bit), realised and halted (sets of      *)
(* endpoints).  A descriptor's bytes are their places in the block.        *)
EXTENDS Integers, Sequences, SequencesExt, FiniteSets

BulkEndpoints == {"0x82", "0x05"}

Descriptor(t, n) == [type |-> t, length |-> n]

(* The blocks of abDescriptors.                                            *)
abDescriptors ==
  << Descriptor("DEVICE", 18),
     [type |-> "CONFIGURATION", length |-> 9, total |-> 32, value |-> 1],
     [type |-> "INTERFACE", length |-> 9, alt |-> 0],
     [type |-> "ENDPOINT", length |-> 7, endpoint |-> "0x82"],
     [type |-> "ENDPOINT", length |-> 7, endpoint |-> "0x05"],
     Descriptor("STRING", 4), Descriptor("STRING", 92),
     Descriptor("STRING", 30), Descriptor("STRING", 18) >>

(* The bytes from place a on, n of them.                                   *)
Bytes(a, n) == [i \in 1 .. n |-> a + i]

Offset(i) == FoldLeft(LAMBDA sum, d : sum + d.length, 0, SubSeq(abDescriptors, 1, i - 1))

Answered(usb, bytes) == [ok |-> TRUE, usb |-> usb, data |-> bytes]
Accepted(usb) == Answered(usb, <<>>)
Rejected(usb) == [ok |-> FALSE, usb |-> usb, data |-> <<>>]

-----------------------------------------------------------------------------
(* The places of the descriptors of type t, in order.                      *)
OfType(t) == SelectSeq([i \in DOMAIN abDescriptors |-> i],
                       LAMBDA i : abDescriptors[i].type = t)

(* A configuration comes with its interfaces and endpoints.                *)
USBGetDescriptor(usb, t, n) ==
  IF t = "STRING" /\ n = 238 THEN Answered(usb, Bytes(500, 18))
  ELSE IF n >= Len(OfType(t)) THEN Rejected(usb)
  ELSE LET i == OfType(t)[n + 1]
           d == abDescriptors[i]
       IN  Answered(usb, Bytes(Offset(i), IF t = "CONFIGURATION" THEN d.total ELSE d.length))

(* The nearest descriptor of type t before place i.                        *)
Enclosing(t, i) ==
  abDescriptors[CHOOSE j \in 1 .. i :
    abDescriptors[j].type = t /\ \A k \in j + 1 .. i : abDescriptors[k].type # t]

EndpointsOf(config, alt) ==
  {abDescriptors[i].endpoint : i \in
    {j \in DOMAIN abDescriptors :
       /\ abDescriptors[j].type = "ENDPOINT"
       /\ Enclosing("CONFIGURATION", j).value = config
       /\ Enclosing("INTERFACE", j).alt = alt}}

(* A configured endpoint is realised and does not stall.                   *)
USBHwEPConfig(usb, endpoints) ==
  [usb EXCEPT !.realised = @ \cup endpoints, !.halted = @ \ endpoints]

(* Configuration 0 leaves the endpoints as they are; one that does not     *)
(* exist configures a device without endpoints.                            *)
USBSetConfiguration(usb, config) ==
  IF config = 0 THEN [usb EXCEPT !.configured = FALSE]
  ELSE USBHwEPConfig([usb EXCEPT !.configured = TRUE], EndpointsOf(config, 0))

HandleStdDeviceReq(usb, s) ==
  CASE s.op = "GET_STATUS" -> Answered(usb, <<0, 0>>)
    [] s.op = "SET_ADDRESS" -> Accepted([usb EXCEPT !.address = s.value])
    [] s.op = "GET_DESCRIPTOR" -> USBGetDescriptor(usb, s.value, s.index)
    [] s.op = "GET_CONFIGURATION" -> Answered(usb, <<usb.configuration>>)
    [] s.op = "SET_CONFIGURATION" ->
         Accepted([USBSetConfiguration(usb, s.value) EXCEPT !.configuration = s.value])
    [] OTHER -> Rejected(usb)

HandleStdInterfaceReq(usb, s) ==
  CASE s.op = "GET_STATUS" -> Answered(usb, <<0, 0>>)
    [] s.op = "GET_INTERFACE" -> Answered(usb, <<0>>)
    [] s.op = "SET_INTERFACE" /\ s.value = 0 -> Accepted(usb)
    [] OTHER -> Rejected(usb)

HandleStdEndPointReq(usb, s) ==
  CASE s.op = "GET_STATUS" -> Answered(usb, <<IF s.index \in usb.halted THEN 1 ELSE 0, 0>>)
    [] s.op = "CLEAR_FEATURE" /\ s.value = "ENDPOINT_HALT" ->
         Accepted([usb EXCEPT !.halted = @ \ {s.index}])
    [] s.op = "SET_FEATURE" /\ s.value = "ENDPOINT_HALT" ->
         Accepted([usb EXCEPT !.halted = @ \cup {s.index}])
    [] OTHER -> Rejected(usb)

USBHandleStandardRequest(usb, s) ==
  CASE s.recip = "DEVICE" -> HandleStdDeviceReq(usb, s)
    [] s.recip = "INTERFACE" -> HandleStdInterfaceReq(usb, s)
    [] s.recip = "ENDPOINT" -> HandleStdEndPointReq(usb, s)
    [] OTHER -> Rejected(usb)

-----------------------------------------------------------------------------
(* Vendor request 0xFF: which WINUSB descriptor, and which 64 KB page.     *)

OsDescriptor(index) ==
  CASE index = 4 -> Bytes(600, 40)
    [] index = 5 -> Bytes(700, 146)
    [] OTHER -> <<>>

USBFilterOsVendorMessage(usb, s) ==
  IF OsDescriptor(s.index) = <<>> \/ Len(OsDescriptor(s.index)) < 65536 * s.value
  THEN Rejected(usb)
  ELSE Answered(usb, OsDescriptor(s.index))

-----------------------------------------------------------------------------
(* After power-on, and what a bus reset does: the controller forgets its   *)
(* endpoints and its address; HandleUsbReset() leaves the stack's own      *)
(* variable alone.                                                         *)
PoweredUsb == [configuration |-> 0, address |-> 0, configured |-> FALSE,
               realised |-> {}, halted |-> {}]

BusReset(usb) == [PoweredUsb EXCEPT !.configuration = usb.configuration]
=============================================================================
