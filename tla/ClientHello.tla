----------------------------- MODULE ClientHello -----------------------------
(***************************************************************************)
(* The WAF's parser of TLS ClientHello messages, which runs in the accept  *)
(* loop on whatever a peer has sent.  What the bytes say is arbitrary: a   *)
(* length read from the message is any number, so only the cursor, the     *)
(* lengths and the ranges read are state.                                  *)
(***************************************************************************)
EXTENDS Integers

CONSTANTS
  MaxBytes,    \* size of the buffer that is peeked into
  MaxField     \* largest length a field may announce

ASSUME HelloAssumption == MaxBytes \in Nat /\ MaxField \in Nat

VARIABLES
  helloAt,     \* the field the parser is at
  helloLen,    \* len(data) of the part it works on
  helloPos,    \* pos
  helloEnd,    \* extEnd
  helloRead    \* one past the last byte it has looked at, in the same part

helloVars == <<helloAt, helloLen, helloPos, helloEnd, helloRead>>

Field == 0 .. MaxField
Body == 34    \* version and random

\* Bytes of the peek buffer from the body of the handshake on: a slice of the message
\* may reach behind it, but not behind the buffer.
BufferRoom == MaxBytes - 9

HelloInit ==
  /\ helloAt = "record" /\ helloLen \in 0 .. MaxBytes
  /\ helloPos = 0 /\ helloEnd = 0 /\ helloRead = 0

Fail == helloAt' = "error" /\ UNCHANGED <<helloLen, helloPos, helloEnd, helloRead>>

\* ParseClientHello: the record's and the handshake's headers.
ParseClientHello ==
  /\ helloAt = "record"
  /\ \/ Fail   \* too short, or not a ClientHello
     \/ \E recordLen, hsLen \in 0 .. MaxBytes :
          /\ helloLen >= 5 + recordLen /\ recordLen >= 4 + hsLen
          /\ helloLen' = hsLen /\ helloAt' = "body"
          /\ UNCHANGED <<helloPos, helloEnd, helloRead>>

\* parseClientHelloBody: version, random and the session's identifier.
ParseSession ==
  /\ helloAt = "body"
  /\ \/ helloLen <= Body /\ Fail
     \/ /\ helloLen > Body
        /\ \E sessionIDLen \in Field : helloPos' = Body + 1 + sessionIDLen
        /\ helloRead' = Body + 1 /\ helloAt' = "ciphers" /\ UNCHANGED <<helloLen, helloEnd>>

\* The list of cipher suites, two bytes at a time up to csLen: the last slice of a list
\* of odd length takes a byte behind it, and panics when that is behind the buffer.
ParseCiphers ==
  /\ helloAt = "ciphers"
  /\ \/ helloPos + 2 > helloLen /\ Fail
     \/ /\ helloPos + 2 <= helloLen
        /\ \E csLen \in Field :
             \/ helloPos + 2 + csLen > helloLen /\ Fail
             \/ /\ helloPos + 2 + csLen <= helloLen
                /\ helloPos' = helloPos + 2 + csLen
                /\ IF helloPos' + (csLen % 2) > BufferRoom
                     THEN helloAt' = "panic" /\ UNCHANGED helloRead
                     ELSE helloAt' = "compression" /\ helloRead' = helloPos' + (csLen % 2)
                /\ UNCHANGED <<helloLen, helloEnd>>

ParseCompression ==
  /\ helloAt = "compression"
  /\ \/ helloPos >= helloLen /\ Fail
     \/ /\ helloPos < helloLen
        /\ \E compLen \in Field : helloPos' = helloPos + 1 + compLen
        /\ helloRead' = helloPos + 1 /\ helloAt' = "extensions" /\ UNCHANGED <<helloLen, helloEnd>>

\* extEnd, cut at the end of the data; a message may have no extensions.
ParseExtensions ==
  /\ helloAt = "extensions"
  /\ \/ helloPos + 2 > helloLen /\ helloAt' = "done" /\ UNCHANGED <<helloPos, helloEnd, helloRead>>
     \/ /\ helloPos + 2 <= helloLen
        /\ \E extTotalLen \in Field :
             helloEnd' = IF helloPos + 2 + extTotalLen > helloLen THEN helloLen
                         ELSE helloPos + 2 + extTotalLen
        /\ helloRead' = helloPos + 2 /\ helloPos' = helloPos + 2 /\ helloAt' = "extension"
  /\ UNCHANGED helloLen

(* What the parsers of extension contents look at, of n bytes: elements of *)
(* width bytes after a length field of head bytes, as long as both the     *)
(* announced length and the data last (groups, formats, algorithms and     *)
(* versions); names and protocols are taken only if they fit.              *)
ListRead(n, head, width, listLen) ==
  IF n < head THEN 0
  ELSE LET whole == IF head + listLen < n THEN listLen ELSE n - head
       IN  head + width * (whole \div width)
NameRead(n, head, nameLen) == IF n < head \/ n < head + nameLen THEN 0 ELSE head + nameLen

\* Mutant: the loop that takes whatever starts before the end.
ParseExtensionHasty ==
  /\ helloAt = "extension"
  /\ \/ helloPos + 2 > helloEnd /\ helloAt' = "done" /\ UNCHANGED <<helloPos, helloRead>>
     \/ /\ helloPos + 2 <= helloEnd
        /\ \E extLen \in Field : helloPos' = helloPos + 4 + extLen
        /\ helloRead' = helloPos + 4 /\ UNCHANGED helloAt
  /\ UNCHANGED <<helloLen, helloEnd>>

\* One extension: its header, and its contents as far as the data goes.
ParseExtension ==
  /\ helloAt = "extension"
  /\ \/ helloPos + 4 > helloEnd /\ helloAt' = "done" /\ UNCHANGED <<helloPos, helloRead>>
     \/ /\ helloPos + 4 <= helloEnd
        /\ \E extLen, inner \in Field :
             LET start == helloPos + 4
                 n == IF helloLen - start > extLen THEN extLen ELSE helloLen - start
             IN  /\ \E r \in {0, NameRead(n, 5, inner), ListRead(n, 2, 2, inner), ListRead(n, 2, 1, inner),
                              ListRead(n, 1, 1, inner), ListRead(n, 1, 2, inner)} :
                      helloRead' = start + r
                 /\ helloPos' = start + extLen
        /\ UNCHANGED helloAt
  /\ UNCHANGED <<helloLen, helloEnd>>

HelloNext ==
  \/ ParseClientHello \/ ParseSession \/ ParseCiphers \/ ParseCompression
  \/ ParseExtensions \/ ParseExtension

HelloSpec == HelloInit /\ [][HelloNext]_helloVars

-----------------------------------------------------------------------------
(* Whatever lengths a message announces, the parser reads no byte behind   *)
(* the message, except one byte of the peek buffer when the list of cipher *)
(* suites has an odd length and ends the message; and it leaves the buffer *)
(* itself, which is a panic in the accept loop, only if that message fills *)
(* the buffer exactly (tls_parser.go, ParseClientHello and                 *)
(* parseClientHelloBody; the buffer of early_reject.go).                   *)
HelloReads ==
  /\ helloAt \in {"compression", "extensions", "extension", "done"} =>
       /\ helloRead <= helloLen + (IF helloAt = "compression" THEN 1 ELSE 0)
       /\ helloRead <= BufferRoom
  /\ helloAt = "panic" => helloPos = helloLen /\ helloLen = BufferRoom
=============================================================================
