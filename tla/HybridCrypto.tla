---------------------------- MODULE HybridCrypto ----------------------------
(***************************************************************************)
(* HybridCryptoService and ServerKeyHolder: an instruction is sealed into  *)
(* a packet [key under RSA][IV][body under AES-GCM][tag], as base64 text,  *)
(* and opened again.  Each operation is a list of calls of OpenSSL and of  *)
(* allocations of C++, most of which can fail.  A failing call of OpenSSL  *)
(* gives back the contexts the operation got; a failing allocation gives   *)
(* back none.  The cryptography is ideal: RSA-OAEP gives the key back for  *)
(* the bytes it was wrapped in, and AES-GCM opens what it sealed.  One     *)
(* packet is followed: but for the key, nothing is kept from one to the    *)
(* next.                                                                   *)
(***************************************************************************)
EXTENDS Amounts, Sequences

CONSTANTS
  KeyBytes, IvBytes, TagBytes,   \* lengths of the parts (256, 12, 16)
  BodyLengths,                   \* lengths an instruction may have
  Typed                          \* amounts in paise that are asked for

ASSUME HybridCryptoAssumption ==
  /\ {KeyBytes, IvBytes, TagBytes} \cup BodyLengths \subseteq Nat \ {0}
  /\ Typed \subseteq Nat

VARIABLES
  op, pc,    \* the operation in progress and its next call
  open,      \* contexts that the operation got and has not given back
  leaked,    \* history: contexts that were open when their operation ended,
             \* each with the call that was its last
  misuse,    \* history: a context was used or given back that was not open
  failed,    \* history: a call failed for no fault of the packet
  packet,    \* what was sealed: the amount, in rupees, and the body's length
  typed,     \* the amount in paise that the user asked for
  wire,      \* the text of the packet, in groups of four characters
  outcome    \* what became of it

vars == <<op, pc, open, leaked, misuse, failed, packet, typed, wire, outcome>>

-----------------------------------------------------------------------------
(***************************************************************************)
(* The calls of each operation in their order.  A call that fails gives    *)
(* back the contexts in "undo" and throws.  "check" is what it finds wrong *)
(* with a packet.                                                          *)
(***************************************************************************)
Contexts == {"rsa", "aes", "b64", "der", "md"}
Call == [kind |-> "use", ctx |-> "none", undo |-> {}, check |-> "nothing",
         fails |-> TRUE]
New(c)      == [Call EXCEPT !.kind = "new", !.ctx = c]
Use(c)      == [Call EXCEPT !.ctx = c, !.undo = {c}]
Free(c)     == [Call EXCEPT !.kind = "free", !.ctx = c, !.fails = FALSE]
\* Calls whose result nobody looks at.
Alloc(c)    == [New(c) EXCEPT !.fails = FALSE]
Write(c)    == [Use(c) EXCEPT !.undo = {}, !.fails = FALSE]
Test(what)  == [Call EXCEPT !.kind = "test", !.check = what, !.fails = FALSE]
\* A vector or a string is made while a context is open: bad_alloc passes by
\* the calls that would give the context back.  (Made while none is open, it
\* fails as another call of the operation does.)
Memory == [Call EXCEPT !.kind = "memory"]

\* The constructor of ServerKeyHolder.
KeyGen == <<New("rsa"), Use("rsa"), Use("rsa"), Use("rsa"), Free("rsa")>>

\* getPublicKeyBase64.
PublicKey ==
  <<New("der"), Alloc("b64"), Write("b64"), Memory, Free("b64"), Free("der")>>

Base64Encode == <<Alloc("b64"), Write("b64"), Memory, Free("b64")>>
Base64Decode == <<Alloc("b64"), Memory, Use("b64"), Free("b64")>>

\* RAND_bytes for the key and the IV; init, key and IV, update, final and tag
\* of AES-GCM; init, parameters, size and encryption of RSA.
Encrypt ==
  <<Call, Call,
    New("aes"), Use("aes"), Use("aes"), Memory, Use("aes"), Use("aes"), Memory,
    Use("aes"), Free("aes"),
    New("rsa"), Use("rsa"), Use("rsa"), Use("rsa"), Memory, Use("rsa"),
    Free("rsa")>>
  \o Base64Encode

\* Mutant of Decrypt: the context of AES is given back after the verdict.
DecryptLateFree ==
  Base64Decode \o <<Test("long")>> \o
  <<New("rsa"), Use("rsa"), Use("rsa"), Use("rsa"), Memory,
    [Use("rsa") EXCEPT !.check = "key"], Free("rsa"),
    New("aes"), Use("aes"), Use("aes"), Memory, Use("aes"), Use("aes"),
    Test("tag"), Free("aes")>>

\* Init, parameters, size and decryption of RSA; init, key and IV, update and
\* tag of AES-GCM, whose verdict is looked at after the context went back.
Decrypt ==
  Base64Decode \o <<Test("long")>> \o
  <<New("rsa"), Use("rsa"), Use("rsa"), Use("rsa"), Memory,
    [Use("rsa") EXCEPT !.check = "key"], Free("rsa"),
    New("aes"), Use("aes"), Use("aes"), Memory, Use("aes"), Use("aes"),
    Write("aes"), Free("aes"), Test("tag")>>

HashCiphertext == <<New("md"), Use("md"), Use("md"), Free("md")>>

Calls == [keyGen |-> KeyGen, publicKey |-> PublicKey, encrypt |-> Encrypt,
          hash |-> HashCiphertext, decrypt |-> Decrypt]

-----------------------------------------------------------------------------
(***************************************************************************)
(* The packet, byte by byte.                                               *)
(***************************************************************************)
Part(name, length) == [i \in 1..length |-> <<name, i>>]
Junk == <<"junk", 0>>

\* The order the parts are packed in.
Pack(bodyLength) ==
  Part("key", KeyBytes) \o Part("iv", IvBytes) \o Part("body", bodyLength)
    \o Part("tag", TagBytes)

\* Mutant of Encoded: BIO_FLAGS_BASE64_NO_NL is not set, so that the text ends
\* with a newline, which is no group.
EncodedWithNewline(bytes) ==
  Append([g \in 1..((Len(bytes) + 2) \div 3) |->
            SubSeq(bytes, 3 * g - 2, IF 3 * g < Len(bytes) THEN 3 * g
                                                           ELSE Len(bytes))],
         <<>>)

\* base64: three bytes make a group of four characters.
Encoded(bytes) ==
  [g \in 1..((Len(bytes) + 2) \div 3) |->
     SubSeq(bytes, 3 * g - 2, IF 3 * g < Len(bytes) THEN 3 * g ELSE Len(bytes))]

\* Back again: every group but the last is one of three bytes.
Decoded(text) ==
  LET n == Len(text)
      length == IF n = 0 THEN 0 ELSE 3 * (n - 1) + Len(text[n])
  IN  [i \in 1..length |-> text[(i + 2) \div 3][((i - 1) % 3) + 1]]

\* Mutant of Slices: the IV is skipped with the tag's length.
SlicesShifted(all) ==
  LET ivEnd   == KeyBytes + IvBytes
      bodyEnd == Len(all) - TagBytes
  IN  [key  |-> SubSeq(all, 1, KeyBytes),
       iv   |-> SubSeq(all, KeyBytes + 1, ivEnd),
       body |-> SubSeq(all, KeyBytes + TagBytes + 1, bodyEnd),
       tag  |-> SubSeq(all, bodyEnd + 1, Len(all))]

\* How decrypt takes the bytes apart, by lengths alone.
Slices(all) ==
  LET ivEnd   == KeyBytes + IvBytes
      bodyEnd == Len(all) - TagBytes
  IN  [key  |-> SubSeq(all, 1, KeyBytes),
       iv   |-> SubSeq(all, KeyBytes + 1, ivEnd),
       body |-> SubSeq(all, ivEnd + 1, bodyEnd),
       tag  |-> SubSeq(all, bodyEnd + 1, Len(all))]

\* What each call says to the bytes it is given.
Accepts(check) ==
  LET all == Decoded(wire)
      s   == Slices(all)
  IN  CASE check = "long" -> Len(all) >= KeyBytes + IvBytes + TagBytes
        [] check = "key"  -> s.key = Part("key", KeyBytes)
        [] check = "tag"  -> /\ s.iv = Part("iv", IvBytes)
                             /\ s.body = Part("body", packet.length)
                             /\ s.tag = Part("tag", TagBytes)
        [] OTHER -> TRUE

-----------------------------------------------------------------------------
NoPacket == [rupees |-> ToRupees(0), length |-> 0]

\* main() makes the key before anything else.
Init ==
  /\ op = "keyGen" /\ pc = 1
  /\ open = {} /\ leaked = {} /\ misuse = FALSE /\ failed = FALSE
  /\ packet = NoPacket /\ typed = 0 /\ wire = <<>>
  /\ outcome = "starting"

Begin(name) == op' = name /\ pc' = 1

\* What a complete operation leads to.
Complete ==
  CASE op = "keyGen" -> /\ Begin("publicKey") /\ UNCHANGED <<wire, outcome>>
    [] op = "publicKey" -> /\ op' = "idle" /\ pc' = 0
                           /\ outcome' = IF outcome = "starting" THEN "none"
                                                              ELSE outcome
                           /\ UNCHANGED wire
    [] op = "encrypt" -> /\ op' = "idle" /\ pc' = 0 /\ outcome' = "sent"
                         /\ wire' = Encoded(Pack(packet.length))
    [] op = "hash" -> /\ Begin("decrypt") /\ UNCHANGED <<wire, outcome>>
    [] op = "decrypt" -> /\ op' = "idle" /\ pc' = 0 /\ outcome' = "accepted"
                         /\ UNCHANGED wire

AtLastCall == pc = Len(Calls[op])

\* The contexts that are open after a call.
After(c, contexts) ==
  CASE c.kind = "new" -> contexts \cup {c.ctx}
    [] c.kind = "free" -> contexts \ {c.ctx}
    [] OTHER -> contexts

\* An operation ends, and nobody knows any more of the contexts it left open.
End(left) ==
  /\ open' = {}
  /\ leaked' = leaked \cup {[op |-> op, pc |-> pc, ctx |-> x] : x \in left}

\* A call succeeds.
Succeed ==
  /\ op # "idle"
  /\ LET c == Calls[op][pc]
     IN  /\ Accepts(c.check)
         /\ misuse' = (misuse \/ (/\ c.kind \in {"use", "free"}
                                  /\ c.ctx \notin open \cup {"none"}))
         /\ IF AtLastCall
            THEN End(After(c, open)) /\ Complete
            ELSE /\ open' = After(c, open) /\ pc' = pc + 1
                 /\ UNCHANGED <<leaked, op, wire, outcome>>
  /\ UNCHANGED <<failed, packet, typed>>

\* A call fails, by itself or because of the packet, and the operation throws.
\* A server that fails to make its key ends; a packet that cannot be hashed or
\* decrypted is refused.
Fail ==
  /\ op # "idle"
  /\ LET c == Calls[op][pc]
     IN  /\ c.fails \/ ~Accepts(c.check)
         /\ failed' = (failed \/ Accepts(c.check))
         /\ End(open \ c.undo)
         /\ misuse' = (misuse \/ ~(c.undo \subseteq open))
  /\ op' = "idle" /\ pc' = 0
  /\ outcome' = CASE outcome = "starting" -> "ended"
                  [] op = "publicKey" -> outcome
                  [] op = "encrypt" -> "unsent"
                  [] OTHER -> "refused"
  /\ UNCHANGED <<packet, typed, wire>>

\* demoSend reads the amount from a decimal, and encrypt writes it again.
DemoSend(n, length) ==
  /\ op = "idle" /\ outcome = "none"
  /\ typed' = n
  /\ packet' = [rupees |-> ToRupees(ToPaise(ToRupees(n))), length |-> length]
  /\ outcome' = "unsent" /\ failed' = FALSE
  /\ Begin("encrypt")
  /\ UNCHANGED <<open, leaked, misuse, wire>>

\* getServerKey asks for the public key at any time.
GetServerKey ==
  /\ op = "idle" /\ outcome # "ended"
  /\ Begin("publicKey")
  /\ UNCHANGED <<open, leaked, misuse, failed, packet, typed, wire, outcome>>

\* On its way a group of the text is changed, or the rest of it is lost.
Damage ==
  /\ op = "idle" /\ outcome = "sent" /\ wire = Encoded(Pack(packet.length))
  /\ \E g \in DOMAIN wire :
       \/ wire' = [wire EXCEPT ![g] = [i \in DOMAIN @ |-> Junk]]
       \/ wire' = SubSeq(wire, 1, g - 1)
  /\ UNCHANGED <<op, pc, open, leaked, misuse, failed, packet, typed, outcome>>

\* ingest() hashes the text, then decrypts it.
Ingest ==
  /\ op = "idle" /\ outcome = "sent"
  /\ Begin("hash")
  /\ UNCHANGED <<open, leaked, misuse, failed, packet, typed, wire, outcome>>

\* main() does not catch what the constructor of ServerKeyHolder throws.
Exited == outcome = "ended" /\ UNCHANGED vars

Next ==
  \/ Succeed \/ Fail \/ Exited
  \/ \E n \in Typed, length \in BodyLengths : DemoSend(n, length)
  \/ GetServerKey \/ Damage \/ Ingest

Spec == Init /\ [][Next]_vars

-----------------------------------------------------------------------------
(***************************************************************************)
(* Properties.                                                             *)
(***************************************************************************)
TypeOK ==
  /\ \/ op = "idle" /\ pc = 0
     \/ op \in DOMAIN Calls /\ pc \in DOMAIN Calls[op]
  /\ open \subseteq Contexts
  /\ \A l \in leaked :
       l.op \in DOMAIN Calls /\ l.pc \in DOMAIN Calls[l.op] /\ l.ctx \in Contexts
  /\ misuse \in BOOLEAN /\ failed \in BOOLEAN
  /\ typed \in Nat /\ packet.length \in Nat
  /\ \A g \in DOMAIN wire : Len(wire[g]) \in 1..3
  /\ outcome \in {"starting", "ended", "none", "unsent", "sent", "accepted",
                 "refused"}

\* Whichever call of OpenSSL fails, an operation gives back every context it
\* got, once, and touches none before or after.  A context leaks only at an
\* allocation of C++ that fails.
ContextsFreed ==
  /\ ~misuse
  /\ \A l \in leaked : Calls[l.op][l.pc].kind = "memory"

\* A packet is accepted only with all its bytes as they were packed, wherever
\* damage falls on the parts; and refused only if it was damaged or a call of
\* OpenSSL failed, so that taking apart and packing agree on every length.
AcceptedIffIntact ==
  LET intact == Decoded(wire) = Pack(packet.length)
  IN  /\ outcome = "accepted" => intact
      /\ outcome = "refused" /\ ~failed => ~intact

\* An amount is settled as it was typed: two divisions and two products, each
\* rounded, lose no paisa.
AmountArrives == outcome = "accepted" => ToPaise(packet.rupees) = typed
=============================================================================
