---------------------------- MODULE PairingCode -----------------------------
(***************************************************************************)
(* The six digit pairing code on its way from the gateway to the terminal's  *)
(* screen, through a person's fingers or a camera into the app and back:     *)
(* FormatPairCode and NormalizePairCode of the gateway                       *)
(* (internal/protocol/types.go), the QR payload (internal/client/qr.go) and  *)
(* PairingCode and QRPairingParser of the app.                              *)
(*                                                                         *)
(* A text is a sequence of characters.  Swift's isNumber accepts more than   *)
(* the ten digits Go knows; OtherNumbers stands for those.                   *)
(***************************************************************************)
EXTENDS Filter

Digits       == {"0", "1", "2", "3", "4", "5", "6", "7", "8", "9"}
OtherNumbers == {"half", "arabic four"}

\* What NewPairCode draws (internal/crypto/rand.go).
PairCodes == {code \in Seq(Digits) : Len(code) = 6}

\* Mutant of FormatPairCode: the third digit is repeated.
FormatPairCodeTwice(code) ==
  IF Len(code) # 6 THEN code
  ELSE SubSeq(code, 1, 3) \o <<" ">> \o SubSeq(code, 3, 6)

\* What the terminal shows.
FormatPairCode(code) ==
  IF Len(code) # 6 THEN code
  ELSE SubSeq(code, 1, 3) \o <<" ">> \o SubSeq(code, 4, 6)

\* What the gateway makes of a code it is sent.
NormalizePairCode(s) == Filter(s, Digits)

\* What the app makes of a text; the empty text when it is no code.
NoCode == << >>

AppNormalize(s) ==
  LET numbers == Filter(s, Digits \cup OtherNumbers)
  IN  IF Len(numbers) = 6 THEN numbers ELSE NoCode

\* The QR code the terminal draws for a code it was given, and what the app
\* reads from one: the text after code= when the rest is as it must be.
PairingPayload(shown) ==
  [scheme |-> "dsremote", host |-> "pair", path |-> "",
   params |-> [v |-> "1", code |-> NormalizePairCode(shown)]]

ParseQR(qr) ==
  IF /\ qr.scheme = "dsremote" /\ qr.host = "pair" /\ qr.path \in {"", "/"}
     /\ DOMAIN qr.params = {"v", "code"} /\ qr.params.v = "1"
  THEN AppNormalize(qr.params.code)
  ELSE NoCode

=============================================================================
