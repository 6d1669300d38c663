---------------------------- MODULE DownloadWire ----------------------------
(***************************************************************************)
(* The download frame protocol (veri-runtime/hotstandby/download_wire.c):   *)
(* dl_tx_image slices an image into frames, a byte stream carries them and  *)
(* dl_rx_pump reassembles them frame by frame.                              *)
(*                                                                         *)
(* An image is a sequence of bytes.  A frame keeps the header fields the    *)
(* receiver looks at; the bytes themselves are reduced to `damage`, the     *)
(* first check of dl_rx_absorb a damaged frame fails: the MAC covers every  *)
(* field but the magic, so noise shows up as "magic", "len" (payload_len    *)
(* out of range) or "hmac"; "crc" is a frame authenticated with a wrong     *)
(* payload checksum.  A stream cut inside a frame is a stream without that  *)
(* frame: dl_rx_fill reports DL_E_TRUNC and absorbs nothing.                *)
(***************************************************************************)
EXTENDS Naturals, Sequences, SequencesExt

CONSTANTS WireImages,   \* images a sender may transmit
          MaxPayload,   \* DL_MAX_PAYLOAD, in bytes of the model
          MaxImage,     \* DL_MAX_IMAGE
          MaxFaults,    \* bound on the faults of one behaviour
          MaxRestarts   \* bound on transfers started on the same stream

Bytes == UNION {Range(img) : img \in WireImages}

ASSUME WireAssumption ==
  /\ MaxPayload \in Nat \ {0}
  /\ MaxImage \in Nat
  /\ MaxFaults \in Nat
  /\ MaxRestarts \in Nat
  /\ \A img \in WireImages : img \in Seq(Bytes) /\ Len(img) \in 1 .. MaxImage

VARIABLES
  target,       \* the image dl_tx_image is sending, or <<>> when it is done
  sent,         \* frames of it pushed so far
  link,         \* frames in the stream, oldest first
  rx,           \* the DlReceiver
  result,       \* what the host got: "none", a refusal code, or "ok"
  faults,       \* faults that may still happen
  restarts      \* transfers that may still be started

wireVars == <<target, sent, link, rx, result, faults, restarts>>

-----------------------------------------------------------------------------
(* Sender *)

(* The payload of frame n: the next MaxPayload bytes, or what is left. *)
Slice(img, n) ==
  SubSeq(img, n * MaxPayload + 1, IF (n + 1) * MaxPayload > Len(img)
                                  THEN Len(img) ELSE (n + 1) * MaxPayload)

(* dl_frame_build for the frames dl_tx_image makes. *)
DataFrame(img, n) ==
  [kind      |-> "DATA",
   last      |-> (n + 1) * MaxPayload >= Len(img),
   image_len |-> Len(img),
   seq       |-> n,
   payload   |-> Slice(img, n),
   damage    |-> "none"]

(* Frames dl_frame_build can make but dl_tx_image does not: a peer's ACK or *)
(* ERR, which carry no payload.                                             *)
ControlFrame(kind, len, n) ==
  [kind |-> kind, last |-> FALSE, image_len |-> len, seq |-> n,
   payload |-> <<>>, damage |-> "none"]

MoreToSend == target # <<>> /\ sent * MaxPayload < Len(target)

-----------------------------------------------------------------------------
(* Receiver *)

EmptyRx == [image |-> <<>>, image_len |-> 0, next_seq |-> 0,
            last_seen |-> FALSE, error |-> "OK"]

(* Mutant of AbsorbError: the sequence number is not compared. *)
AbsorbErrorAnySeq(r, f) ==
  IF f.damage = "magic" THEN "MAGIC"
  ELSE IF f.damage = "len" THEN "LEN"
  ELSE IF f.damage = "hmac" THEN "HMAC"
  ELSE IF f.damage = "crc" THEN "CRC"
  ELSE IF f.kind = "ACK" THEN "OK"
  ELSE IF f.kind = "ERR" THEN "STATE"
  ELSE IF r.next_seq # 0 /\ f.image_len # r.image_len THEN "IMAGE_LEN"
  ELSE IF Len(r.image) + Len(f.payload) > f.image_len THEN "OVER"
  ELSE "OK"

(* The checks of dl_rx_absorb, in their order; "OK" when all pass. *)
AbsorbError(r, f) ==
  IF f.damage = "magic" THEN "MAGIC"
  ELSE IF f.damage = "len" THEN "LEN"
  ELSE IF f.damage = "hmac" THEN "HMAC"
  ELSE IF f.damage = "crc" THEN "CRC"
  ELSE IF f.seq # r.next_seq THEN "SEQ"
  ELSE IF f.kind = "ACK" THEN IF f.payload = <<>> THEN "OK" ELSE "LEN"
  ELSE IF f.kind = "ERR" THEN IF f.payload = <<>> THEN "STATE" ELSE "LEN"
  ELSE IF f.image_len \notin 1 .. MaxImage THEN "IMAGE_LEN"
  ELSE IF r.next_seq # 0 /\ f.image_len # r.image_len THEN "IMAGE_LEN"
  ELSE IF Len(r.image) + Len(f.payload) > f.image_len THEN "OVER"
  ELSE "OK"

(* What dl_rx_absorb does with a frame that passes: only a DATA frame with  *)
(* seq 0 anchors image_len, every accepted frame advances next_seq.         *)
Absorb(r, f) ==
  IF f.kind = "DATA"
  THEN [image     |-> r.image \o f.payload,
        image_len |-> IF r.next_seq = 0 THEN f.image_len ELSE r.image_len,
        next_seq  |-> r.next_seq + 1,
        last_seen |-> r.last_seen \/ f.last,
        error     |-> r.error]
  ELSE [image |-> r.image, image_len |-> r.image_len, next_seq |-> r.next_seq + 1,
        last_seen |-> r.last_seen, error |-> r.error]

(* dl_fail: what was received stays. *)
Failed(r, e) ==
  [image |-> r.image, image_len |-> r.image_len, next_seq |-> r.next_seq,
   last_seen |-> r.last_seen, error |-> e]

(* dl_rx_pump on a whole frame: a failed receiver absorbs nothing. *)
Pump(r, f) ==
  LET e == AbsorbError(r, f)
  IN  IF r.error # "OK" THEN r
      ELSE IF e = "OK" THEN Absorb(r, f) ELSE Failed(r, e)

(* The *complete flag of dl_rx_pump, and the test of dl_rx_finish. *)
Complete(r) ==
  /\ r.image_len > 0
  /\ Len(r.image) = r.image_len
  /\ r.last_seen

(* The return code of dl_rx_finish. *)
FinishCode(r) ==
  IF r.error # "OK" THEN r.error
  ELSE IF Complete(r) THEN "ok" ELSE "INCOMPLETE"

-----------------------------------------------------------------------------
WireInit ==
  /\ target \in WireImages
  /\ sent = 0
  /\ link = <<>>
  /\ rx = EmptyRx
  /\ result = "none"
  /\ faults = MaxFaults
  /\ restarts = MaxRestarts

(* One turn of dl_tx_image: build a frame and push it into the stream. *)
SendFrame ==
  /\ MoreToSend
  /\ link' = Append(link, DataFrame(target, sent))
  /\ sent' = sent + 1
  /\ UNCHANGED <<target, rx, result, faults, restarts>>

(* The sender gives up (drain fails, the engineering station goes away) and *)
(* may start another transfer on the same stream.                           *)
AbortTransfer ==
  /\ MoreToSend
  /\ faults > 0
  /\ faults' = faults - 1
  /\ target' = <<>>
  /\ UNCHANGED <<sent, link, rx, result, restarts>>

StartTransfer(img) ==
  /\ ~MoreToSend
  /\ restarts > 0
  /\ restarts' = restarts - 1
  /\ target' = img
  /\ sent' = 0
  /\ UNCHANGED <<link, rx, result, faults>>

(* Faults of the stream. *)
Fault(newLink) ==
  /\ faults > 0
  /\ faults' = faults - 1
  /\ link' = newLink
  /\ UNCHANGED <<target, sent, rx, result, restarts>>

Drop(i) == Fault(RemoveAt(link, i))
Duplicate(i) == Fault(InsertAt(link, i, link[i]))
Reorder(i) ==
  /\ i < Len(link)
  /\ Fault([link EXCEPT ![i] = link[i + 1], ![i + 1] = link[i]])

(* Noise in a frame: the first check it fails. *)
Damaged(f, how) ==
  [kind |-> f.kind, last |-> f.last, image_len |-> f.image_len, seq |-> f.seq,
   payload |-> f.payload, damage |-> how]
Damage(i, how) == Fault([link EXCEPT ![i] = Damaged(link[i], how)])
Intrude(kind) ==
  Fault(Append(link, ControlFrame(kind, Len(target), sent)))

(* The host pumps until the image is complete or refused. *)
PumpFrame ==
  /\ result = "none"
  /\ link # <<>>
  /\ ~Complete(rx)
  /\ rx.error = "OK"
  /\ rx' = Pump(rx, Head(link))
  /\ link' = Tail(link)
  /\ UNCHANGED <<target, sent, result, faults, restarts>>

(* A host that goes on pumping a receiver that has failed. *)
PumpFailed ==
  /\ result = "none"
  /\ link # <<>>
  /\ rx.error # "OK"
  /\ rx' = Pump(rx, Head(link))
  /\ link' = Tail(link)
  /\ UNCHANGED <<target, sent, result, faults, restarts>>

(* Mutant of Finish: the end of the stream is not noticed. *)
FinishWaits ==
  /\ result = "none"
  /\ Complete(rx) \/ rx.error # "OK"
  /\ result' = FinishCode(rx)
  /\ UNCHANGED <<target, sent, link, rx, faults, restarts>>

(* dl_rx_finish, once the pump loop is over: complete, refused, or the end  *)
(* of the stream.                                                           *)
Finish ==
  /\ result = "none"
  /\ Complete(rx) \/ rx.error # "OK" \/ (link = <<>> /\ ~MoreToSend)
  /\ result' = FinishCode(rx)
  /\ UNCHANGED <<target, sent, link, rx, faults, restarts>>

WireNext ==
  \/ SendFrame
  \/ AbortTransfer
  \/ \E img \in WireImages : StartTransfer(img)
  \/ \E i \in DOMAIN link : Drop(i) \/ Duplicate(i) \/ Reorder(i)
  \/ \E i \in DOMAIN link, how \in {"magic", "len", "hmac", "crc"} : Damage(i, how)
  \/ \E kind \in {"ACK", "ERR"} : Intrude(kind)
  \/ PumpFrame
  \/ PumpFailed
  \/ Finish

(* The sender's loop and the host's pump loop both run to their end. *)
WireFairness == WF_wireVars(SendFrame) /\ WF_wireVars(PumpFrame) /\ WF_wireVars(Finish)

WireSpec == WireInit /\ [][WireNext]_wireVars /\ WireFairness

-----------------------------------------------------------------------------
Codes == {"MAGIC", "LEN", "HMAC", "CRC", "SEQ", "IMAGE_LEN", "OVER", "STATE"}

(* The receiver's fields keep their types, and it never holds more bytes      *)
(* than the length its first frame announced (download_wire.c).              *)
WireTypeOK ==
  /\ target \in WireImages \cup {<<>>}
  /\ sent \in Nat
  /\ rx.image \in Seq(Bytes)
  /\ Len(rx.image) <= rx.image_len
  /\ rx.image_len \in 0 .. MaxImage
  /\ rx.next_seq \in Nat
  /\ rx.last_seen \in BOOLEAN
  /\ rx.error \in Codes \cup {"OK"}
  /\ result \in Codes \cup {"none", "ok", "INCOMPLETE"}

(* Every byte of an image handed over stands where it stood in an image of  *)
(* the announced length: frames lost, repeated, reordered, damaged, replaced *)
(* by a peer's ACK or left over from another transfer never shift a slice    *)
(* (download_wire.c, seq and image_len checks of dl_rx_absorb).  Slices of   *)
(* two transfers of the same length may still meet in it: the frame header   *)
(* names no transfer.                                                        *)
SlicesInPlace ==
  result = "ok" =>
    \A i \in DOMAIN rx.image :
      \E img \in WireImages : Len(img) = rx.image_len /\ rx.image[i] = img[i]

(* With one transfer per stream, what dl_rx_finish hands over is exactly    *)
(* the image that was sent, whatever the stream did to its frames.          *)
FinishedWhole ==
  result = "ok" /\ restarts = MaxRestarts => rx.image = target

(* Without faults the image arrives: nothing but a fault makes the receiver *)
(* refuse or stop short.                                                    *)
FaultFreeArrives ==
  result # "none" /\ faults = MaxFaults /\ restarts = MaxRestarts => result = "ok"

(* Both, of every transfer: no byte out of place, no refusal without a fault *)
(* (dl_rx_absorb and dl_rx_finish).                                          *)
TransferSound == SlicesInPlace /\ FaultFreeArrives

(* Why they hold, part by part.  The frames in the stream, whole or damaged, *)
(* each a slice of an image or a control frame.                              *)
Damages == {"none", "magic", "len", "hmac", "crc"}
Frame == [kind : {"DATA", "ACK", "ERR"}, last : BOOLEAN, image_len : Nat, seq : Nat,
          payload : Seq(Bytes), damage : Damages]

IsSlice(f, img) ==
  /\ f.seq * MaxPayload < Len(img)
  /\ f.image_len = Len(img)
  /\ f.payload = Slice(img, f.seq)
  /\ f.last = ((f.seq + 1) * MaxPayload >= Len(img))

LinkOK ==
  /\ link \in Seq(Frame)
  /\ \A k \in DOMAIN link : link[k].kind = "DATA" =>
       \E img \in WireImages : IsSlice(link[k], img)

(* No slice is missing from what was received: an absorbed ACK leaves a gap  *)
(* that no later frame fills.                                                *)
NoGap == Len(rx.image) \in {rx.next_seq * MaxPayload, rx.image_len}

RxOK ==
  /\ rx \in [image : Seq(Bytes), image_len : 0 .. MaxImage, next_seq : Nat,
             last_seen : BOOLEAN, error : Codes \cup {"OK"}]
  /\ Len(rx.image) <= rx.image_len
  /\ Len(rx.image) <= rx.next_seq * MaxPayload
  /\ NoGap => \A i \in DOMAIN rx.image :
       \E img \in WireImages : Len(img) = rx.image_len /\ rx.image[i] = img[i]

HostOK ==
  /\ target \in WireImages \cup {<<>>} /\ sent \in Nat
  /\ faults \in 0 .. MaxFaults /\ restarts \in 0 .. MaxRestarts
  /\ result \in Codes \cup {"none", "ok", "INCOMPLETE"}
  /\ result = "ok" => Complete(rx)

(* With one transfer on the stream every slice in it is of that image; one   *)
(* given up has not sent its last frame.                                     *)
Single ==
  restarts = MaxRestarts =>
    /\ \A k \in DOMAIN link : link[k].kind = "DATA" =>
         IF target = <<>> THEN ~link[k].last
         ELSE link[k].seq < sent /\ IsSlice(link[k], target)
    /\ rx.last_seen => target # <<>> /\ ~MoreToSend
    /\ target # <<>> =>
         /\ rx.image_len \in {0, Len(target)}
         /\ NoGap => \A i \in DOMAIN rx.image : rx.image[i] = target[i]

(* Without a fault the stream is the frames that were sent and not received. *)
Undisturbed ==
  faults = MaxFaults /\ restarts = MaxRestarts =>
    /\ target # <<>> /\ rx.error = "OK" /\ result \in {"none", "ok"}
    /\ sent = rx.next_seq + Len(link)
    /\ \A k \in DOMAIN link : link[k] = DataFrame(target, rx.next_seq + k - 1)
    /\ Len(rx.image) = IF rx.next_seq * MaxPayload > Len(target)
                       THEN Len(target) ELSE rx.next_seq * MaxPayload
    /\ rx.next_seq > 0 => rx.image_len = Len(target)
    /\ rx.last_seen <=> rx.next_seq * MaxPayload >= Len(target)

WireInv == LinkOK /\ RxOK /\ HostOK /\ Single /\ Undisturbed

(* The host always gets a verdict: no stream leaves the pump loop waiting.  *)
Verdict == <>(result # "none")
=============================================================================
