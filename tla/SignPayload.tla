------------------------------ MODULE SignPayload -----------------------------
(***************************************************************************)
(* The decoder of sign() payloads: a NEP-366 delegate action in Borsh,     *)
(* walked by offsets. A buffer is a sequence of bytes; an offset counts    *)
(* from 0; Off is the code's -1 for an offset that cannot be reached, and  *)
(* its null for a number that cannot be read. A key is its variant and its *)
(* bytes (the code prints them in base58, which loses nothing).            *)
(***************************************************************************)
EXTENDS Integers, Sequences, SequencesExt

CONSTANTS Texts,     \* names, code and arguments that a payload may hold
          TextLists, \* lists of method names
          Fill(_)    \* Fill(n): what a field of n bytes may hold

Byte == 0 .. 255
MaxBytes == 64 * (256 * 256 * 256)  \* 2^30: a payload and what it holds are far smaller

ASSUME PayloadAssumption ==
    /\ \A t \in Texts : t \in Seq(Byte) /\ Len(t) < MaxBytes
    /\ \A ts \in TextLists : ts \in Seq(Texts) /\ Len(ts) < MaxBytes
    /\ \A n \in {8, 16, 24, 32, 64} : \A f \in Fill(n) : f \in Seq(Byte) /\ Len(f) = n

Off == -1
NoName == "null"
NoKey == <<>>

(* readU32LE. *)
ReadU32LE(buf, offset) ==
    IF offset + 4 > Len(buf) THEN Off
    ELSE buf[offset + 1] + 256 * (buf[offset + 2] + 256 * (buf[offset + 3] + 256 * buf[offset + 4]))

Nep366Discriminant == 64 * (256 * 256 * 256) + 366  \* (1 << 30) + 366

Within(buf, offset) == IF offset > Len(buf) THEN Off ELSE offset

(* A step of a walk that has already failed fails. *)
Then(offset, Skip(_)) == IF offset = Off THEN Off ELSE Skip(offset)

SkipLengthPrefixed(buf, offset) ==
    LET length == ReadU32LE(buf, offset)
    IN  IF length = Off THEN Off ELSE Within(buf, offset + 4 + length)

KeyLength(variant) == CASE variant = 0 -> 32 [] variant = 1 -> 64 [] OTHER -> Off

SkipPublicKey(buf, offset) ==
    IF offset + 1 > Len(buf) \/ KeyLength(buf[offset + 1]) = Off THEN Off
    ELSE Within(buf, offset + 1 + KeyLength(buf[offset + 1]))

(* The loop of n skips: once one has failed, so have those after it. *)
SkipTimes(n, from, Skip(_)) ==
    LET After[k \in Nat] == IF k = 0 THEN from ELSE Then(After[k - 1], Skip)
    IN  After[n]

(* Slip: the amount behind the allowance's tag is forgotten. *)
SkipAllowanceTag(buf, offset) == IF offset + 1 > Len(buf) THEN Off ELSE offset + 1

(* The optional allowance of a restricted access key: a tag, and an u128. *)
SkipAllowance(buf, offset) ==
    IF offset + 1 > Len(buf) THEN Off
    ELSE IF buf[offset + 1] = 1 THEN offset + 17 ELSE offset + 1

SkipMethods(buf, offset) ==
    LET count == ReadU32LE(buf, offset)
    IN  IF count = Off THEN Off
        ELSE SkipTimes(count, offset + 4, LAMBDA o : SkipLengthPrefixed(buf, o))

SkipPermission(buf, offset) ==
    CASE offset + 1 > Len(buf) -> Off
      [] offset + 1 <= Len(buf) /\ buf[offset + 1] = 1 -> offset + 1
      [] offset + 1 <= Len(buf) /\ buf[offset + 1] = 0 ->
            Then(Then(SkipAllowance(buf, offset + 1), LAMBDA o : SkipLengthPrefixed(buf, o)),
                 LAMBDA o : SkipMethods(buf, o))
      [] OTHER -> Off

(* skipAccessKey: the nonce, then the permission. *)
SkipAccessKey(buf, offset) == SkipPermission(buf, offset + 8)

(* skipAction, by the action's tag; a Delegate (8) cannot be nested. *)
SkipAction(buf, offset) ==
    IF offset + 1 > Len(buf) THEN Off
    ELSE LET tag  == buf[offset + 1]
             body == offset + 1
         IN  CASE tag = 0 -> body
               [] tag \in {1, 7} -> SkipLengthPrefixed(buf, body)
               [] tag = 2 ->
                     Then(Then(SkipLengthPrefixed(buf, body), LAMBDA o : SkipLengthPrefixed(buf, o)),
                          LAMBDA o : Within(buf, o + 24))
               [] tag = 3 -> Within(buf, body + 16)
               [] tag = 4 -> SkipPublicKey(buf, body + 16)
               [] tag = 5 -> Then(SkipPublicKey(buf, body), LAMBDA o : SkipAccessKey(buf, o))
               [] tag = 6 -> SkipPublicKey(buf, body)
               [] OTHER -> Off

SkipActions(buf, offset) ==
    LET count == ReadU32LE(buf, offset)
    IN  IF count = Off THEN Off
        ELSE SkipTimes(count, offset + 4, LAMBDA o : SkipAction(buf, o))

(* The sender and the receiver. *)
SkipParties(buf, offset) ==
    Then(SkipLengthPrefixed(buf, offset), LAMBDA o : SkipLengthPrefixed(buf, o))

(* The public key that begins at offset. *)
KeyAt(buf, offset) ==
    IF SkipPublicKey(buf, offset) = Off THEN NoKey
    ELSE SubSeq(buf, offset + 1, SkipPublicKey(buf, offset))

(* tryDecodeDelegateAction: the key comes after the actions, the nonce and the *)
(* maximal height.                                                            *)
TryDecodeDelegateAction(buf, start) ==
    LET behind == Then(SkipParties(buf, start), LAMBDA o : SkipActions(buf, o))
    IN  IF behind = Off THEN NoKey ELSE KeyAt(buf, behind + 16)

MinLength == 16
IsNep366(buf) == ReadU32LE(buf, 0) = Nep366Discriminant

(* decodeSignDelegatePublicKey: as NEP-366 first, then without a discriminant. *)
DecodeSignDelegatePublicKey(buf) ==
    IF Len(buf) < MinLength THEN NoKey
    ELSE IF IsNep366(buf) /\ TryDecodeDelegateAction(buf, 4) # NoKey
         THEN TryDecodeDelegateAction(buf, 4)
         ELSE TryDecodeDelegateAction(buf, 0)

ActionName == <<"CreateAccount", "DeployContract", "FunctionCall", "Transfer", "Stake",
                "AddKey", "DeleteKey", "DeleteAccount", "Delegate">>
NameOf(tag) == IF tag + 1 \in DOMAIN ActionName THEN ActionName[tag + 1] ELSE "Unknown"

(* The name of the first action of the list that begins at offset. *)
FirstAction(buf, offset) ==
    LET count == ReadU32LE(buf, offset)
    IN  CASE count = Off -> NoName
          [] count = 0 -> "Empty"
          [] count > 0 /\ offset + 4 >= Len(buf) -> NoName
          [] OTHER -> NameOf(buf[offset + 5])

DecodeSignActionType(buf) ==
    IF Len(buf) < MinLength THEN NoName
    ELSE IF ~IsNep366(buf) THEN "Raw"
    ELSE IF SkipParties(buf, 4) = Off THEN NoName ELSE FirstAction(buf, SkipParties(buf, 4))

-------------------------------------------------------------------------------
(* The format, as the header comment of the decoder and NEP-366 give it: what *)
(* a client encodes. A message has a discriminant or none, its sender and     *)
(* receiver, a list of encoded actions, the 16 bytes of nonce and maximal     *)
(* height, and a key.                                                         *)

U32(n) ==
    <<n % 256, (n \div 256) % 256, (n \div (256 * 256)) % 256, n \div (256 * 256 * 256)>>
Text(t) == U32(Len(t)) \o t
List(items) == U32(Len(items)) \o FlattenSeq(items)

Tag(tag, fields) == <<tag>> \o fields

PublicKeys == {Tag(0, k) : k \in Fill(32)} \union {Tag(1, k) : k \in Fill(64)}

Allowances == {Tag(0, <<>>)} \union {Tag(1, a) : a \in Fill(16)}
EncodedTexts(ts) == [i \in 1 .. Len(ts) |-> Text(ts[i])]
Restricted(e, t, ts) == Tag(0, e \o Text(t) \o List(EncodedTexts(ts)))
Permissions ==
    {Tag(1, <<>>)}
    \union {Restricted(e, t, ts) : e \in Allowances, t \in Texts, ts \in TextLists}

Call(t, u, f) == Tag(2, Text(t) \o Text(u) \o f)
Stake(f, k) == Tag(4, f \o k)
AddKey(k, f, p) == Tag(5, k \o f \o p)

(* Every action a payload may hold: a tag, then the action's fields. *)
EncodedActions ==
    {Tag(0, <<>>)}
    \union {Tag(tag, Text(t)) : tag \in {1, 7}, t \in Texts}
    \union {Call(t, u, f) : t \in Texts, u \in Texts, f \in Fill(24)}
    \union {Tag(3, f) : f \in Fill(16)}
    \union {Stake(f, k) : f \in Fill(16), k \in PublicKeys}
    \union {AddKey(k, f, p) : k \in PublicKeys, f \in Fill(8), p \in Permissions}
    \union {Tag(6, k) : k \in PublicKeys}

Encode(message) ==
    (IF message.tagged THEN U32(Nep366Discriminant) ELSE <<>>)
    \o Text(message.sender) \o Text(message.receiver)
    \o List(message.actions) \o message.bounds \o message.key

(* What a client encodes is decoded: the key whatever actions stand before   *)
(* it, the first action's name when the discriminant is there; and a payload *)
(* that is cut short gives no key and no wrong name ("full Borsh skip past    *)
(* actions[] to read the trailing public_key field").                        *)
DecodesWhatIsEncoded(message) ==
    LET buf  == Encode(message)
        name == CASE ~message.tagged -> "Raw"
                  [] message.tagged /\ message.actions = <<>> -> "Empty"
                  [] OTHER -> NameOf(message.actions[1][1])
    IN  /\ DecodeSignDelegatePublicKey(buf) = message.key
        /\ DecodeSignActionType(buf) = name
        /\ \A n \in 0 .. Len(buf) - 1 :
              LET cut == SubSeq(buf, 1, n)
              IN  /\ DecodeSignDelegatePublicKey(cut) = NoKey
                  /\ DecodeSignActionType(cut) \in {NoName, name}
===============================================================================
