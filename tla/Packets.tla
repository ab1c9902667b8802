------------------------------ MODULE Packets ------------------------------
(***************************************************************************)
(* What goes over the network: crates/net/src/frame.rs, the layers and the *)
(* packets of crates/protocol/src.                                         *)
(*                                                                         *)
(* A packet is the bytes its builder writes.  Packets are put together in  *)
(* a message, encrypted (XTEA), given a checksum (Adler-32) and a length   *)
(* (a frame); a parser here returns [ok, got].  What the client does with  *)
(* bytes is external: it reads each packet by the layout the doc comment   *)
(* of its builder gives.  XTEA works on halves of HalfBytes bytes with     *)
(* Rounds round keys (4 and 64 in the code).                               *)
(***************************************************************************)
EXTENDS Wire, Bitwise

CONSTANTS
    MaxFrame,       \* the longest frame (MAX_FRAME, 24590)
    HalfBytes,      \* bytes of half an XTEA block (4)
    Rounds,         \* XTEA round keys (64)
    SealedSize,     \* bytes of an RSA block (RSA_BLOCK_SIZE, 128)
    MostCounted     \* the most that a count of one byte says (255)

ASSUME PacketsAssumption ==
    /\ MaxFrame \in Nat /\ HalfBytes \in {1, 2} /\ Rounds \in Nat /\ Rounds % 2 = 0
    /\ SealedSize \in Nat /\ MostCounted \in 1..255

Refused == [ok |-> FALSE, got |-> << >>]
Parsed(values) == [ok |-> TRUE, got |-> values]

(***************************************************************************)
(* Frames.  A stream is the bytes that arrived before the connection ended.*)
(***************************************************************************)
\* A frame that is too long is an error of the writer: nothing is sent.
WriteFrame(inner) == IF Len(inner) > MaxFrame THEN << >> ELSE U16(Len(inner)) \o inner

\* An end before or inside the length is a clean end; inside the rest it
\* is an error.
ReadFrame(stream) ==
    LET size == FromU16(stream)
    IN  IF Len(stream) < 2 THEN [is |-> "none", inner |-> << >>, rest |-> << >>]
        ELSE IF size > MaxFrame \/ Len(stream) < 2 + size
        THEN [is |-> "error", inner |-> << >>, rest |-> << >>]
        ELSE [is |-> "frame", inner |-> SubSeq(stream, 3, 2 + size),
              rest |-> SubSeq(stream, 3 + size, Len(stream))]

Adler32(data) ==
    LET sums == FoldLeft(LAMBDA s, byte : LET a == (s[1] + byte) % 65521 IN <<a, (s[2] + a) % 65521>>,
                         <<1, 0>>, data)
    IN  U16(sums[1]) \o U16(sums[2])
Checksummed(payload) == Adler32(payload) \o payload
Verify(inner) ==
    LET payload == SubSeq(inner, 5, Len(inner))
    IN  IF Len(inner) >= 4 /\ SubSeq(inner, 1, 4) = Adler32(payload) THEN Parsed(payload) ELSE Refused

(***************************************************************************)
(* XTEA on words of HalfBytes bytes; a key is four words.                  *)
(***************************************************************************)
Modulus == 256^HalfBytes
Golden == 31161 % Modulus       \* DELTA, its low bytes
Block == 2 * HalfBytes

ExpandKey(key) ==
    LET sum(i) == ((i \div 2) * Golden) % Modulus
    IN  [i \in 0..Rounds-1 |->
            IF i % 2 = 0 THEN (sum(i) + key[(sum(i) % 4) + 1]) % Modulus
            ELSE (sum(i + 1) + key[((sum(i + 1) \div 2048) % 4) + 1]) % Modulus]

ReadHalf(b) == FoldRight(LAMBDA byte, n : 256 * n + byte, b, 0)
WriteHalf(n) == [i \in 1..HalfBytes |-> (n \div 256^(i - 1)) % 256]
Mixed(half, key) == (((((half * 16) % Modulus) ^^ (half \div 32)) + half) % Modulus) ^^ key

EncryptBlock(b, keys) ==
    LET round(h, i) == LET left == (h[1] + Mixed(h[2], keys[2 * i])) % Modulus
                       IN  <<left, (h[2] + Mixed(left, keys[2 * i + 1])) % Modulus>>
        out == FoldLeft(round, <<ReadHalf(SubSeq(b, 1, HalfBytes)), ReadHalf(SubSeq(b, HalfBytes + 1, Block))>>,
                        [i \in 1..Rounds \div 2 |-> i - 1])
    IN  WriteHalf(out[1]) \o WriteHalf(out[2])

DecryptBlock(b, keys) ==
    LET round(h, i) == LET right == (h[2] - Mixed(h[1], keys[2 * i + 1])) % Modulus
                       IN  <<(h[1] - Mixed(right, keys[2 * i])) % Modulus, right>>
        out == FoldLeft(round, <<ReadHalf(SubSeq(b, 1, HalfBytes)), ReadHalf(SubSeq(b, HalfBytes + 1, Block))>>,
                        [i \in 1..Rounds \div 2 |-> Rounds \div 2 - i])
    IN  WriteHalf(out[1]) \o WriteHalf(out[2])

\* Whole blocks only; what is left over stays as it is.
Blockwise(data, Cipher(_)) ==
    FlattenSeq([k \in 1..Len(data) \div Block |-> Cipher(SubSeq(data, (k - 1) * Block + 1, k * Block))])
    \o SubSeq(data, (Len(data) \div Block) * Block + 1, Len(data))

EncryptMessage(payload, keys) ==
    LET plain == U16(Len(payload)) \o payload
        padding == (Block - (Len(plain) % Block)) % Block
    IN  Blockwise(plain \o Zeros(padding), LAMBDA b : EncryptBlock(b, keys))

DecryptMessage(body, keys) ==
    LET plain == Blockwise(body, LAMBDA b : DecryptBlock(b, keys))
        inner == FromU16(plain)
    IN  IF body = << >> \/ Len(body) % Block # 0 \/ 2 + inner > Len(plain) THEN Refused
        ELSE Parsed(SubSeq(plain, 3, 2 + inner))

\* The messages a connection delivers: a frame with a wrong checksum or
\* that cannot be decrypted is skipped, an end or an error is the end.
RECURSIVE Delivered(_, _)
Delivered(stream, keys) ==
    LET frame == ReadFrame(stream)
        body == Verify(frame.inner)
        message == DecryptMessage(body.got, keys)
    IN  IF frame.is # "frame" THEN << >>
        ELSE (IF body.ok /\ message.ok THEN <<message.got>> ELSE << >>) \o Delivered(frame.rest, keys)

\* What a writer sends for its messages, until one does not fit a frame.
Sent(messages, keys) ==
    LET frame(i) == WriteFrame(Checksummed(EncryptMessage(messages[i], keys)))
        long == {i \in DOMAIN messages : frame(i) = << >>}
    IN  FlattenSeq([i \in 1..(IF long = {} THEN Len(messages) ELSE Min(long) - 1) |-> frame(i)])

(***************************************************************************)
(* RSA: a permutation of blocks of SealedSize bytes that only the holder   *)
(* of the private key can undo; which one does not matter.                 *)
(***************************************************************************)
EncryptPublic(block) == IF Len(block) = SealedSize THEN Parsed([i \in DOMAIN block |-> 255 - block[i]]) ELSE Refused
DecryptPrivate(block) == IF Len(block) = SealedSize THEN Parsed([i \in DOMAIN block |-> 255 - block[i]]) ELSE Refused

Padded(bytes) == bytes \o Zeros(SealedSize - Len(bytes))

(***************************************************************************)
(* Logging in: first at the login server, with the name and the password   *)
(* of the account; then at the game server, with the session key that the  *)
(* first one handed out.  Keys are four words.                             *)
(***************************************************************************)
FourWords(key) == FlattenSeq([i \in 1..4 |-> U32(key[i])])
Newline == 10

LoginRequest(version, key, account, password) ==
    <<1>> \o U16(2) \o U16(version) \o Zeros(17)
    \o EncryptPublic(Padded(<<0>> \o FourWords(key) \o Text(account) \o Text(password))).got

\* The version, the key, the account and the password.
ParseLogin(payload) ==
    LET r == Reading(payload, <<"u8", "u16", "u16", "u32", "u32", "u32", "u32", "u8">>)
        block == DecryptPrivate(SubSeq(r.left, 1, SealedSize)).got
        inner == Reading(block, <<"u8", "u32", "u32", "u32", "u32", "text", "text">>)
    IN  IF ~ r.ok \/ Len(r.left) < SealedSize \/ r.got[1] # 1 \/ r.got[3] < 971
           \/ ~ inner.ok \/ inner.got[1] # 0
        THEN Refused
        ELSE Parsed(<<r.got[3], SubSeq(inner.got, 2, 5), inner.got[6], inner.got[7]>>)

CharacterList(motd, session, world, characters) ==
    LET count == IF Len(characters) > MostCounted THEN MostCounted ELSE Len(characters)
    IN  <<20>> \o Text(motd) \o <<40>> \o Text(session)
        \o <<100, 1, 0>> \o Text(world.name) \o Text(world.host) \o U16(world.port) \o <<0, count>>
        \o FlattenSeq([i \in 1..count |-> <<0>> \o Text(characters[i])])
        \o <<0, 0>> \o U32(0)
BuildError(message, version) == <<IF version >= 1076 THEN 11 ELSE 10>> \o Text(message)

\* The row of the account, if name and password are those of one.
Authenticate(accounts, name, password) ==
    {a \in accounts : a.name = name /\ a.password = password}

\* What the login server sends back on a frame, nothing if it cannot be read.
HandleLogin(inner, accounts, world) ==
    LET payload == Verify(inner)
        request == ParseLogin(payload.got)
        found == Authenticate(accounts, request.got[3], request.got[4])
        account == CHOOSE a \in found : TRUE
        session == request.got[3] \o <<Newline>> \o request.got[4] \o <<Newline, Newline, 48>>
        reply == IF found = {} THEN BuildError(world.refusal, request.got[1])
                 ELSE CharacterList(world.motd, session, world, account.characters)
    IN  IF ~ payload.ok \/ ~ request.ok THEN << >>
        ELSE WriteFrame(Checksummed(EncryptMessage(reply, ExpandKey(request.got[2]))))

\* The session key comes apart at its newlines: four parts exactly.
SplitSessionKey(session) ==
    LET breaks == SelectSeq([i \in 1..Len(session) |-> i], LAMBDA i : session[i] = Newline)
    IN  IF Len(breaks) # 3 THEN Refused
        ELSE Parsed(<<SubSeq(session, 1, breaks[1] - 1), SubSeq(session, breaks[1] + 1, breaks[2] - 1)>>)

ClientVersions == 1097..1098
GameLogin(version, key, session, name, challenge) ==
    <<10>> \o U16(2) \o U16(version) \o Zeros(7)
    \o EncryptPublic(Padded(<<0>> \o FourWords(key) \o <<0>> \o Text(session) \o Text(name)
                            \o U32(challenge[1]) \o U8(challenge[2]))).got

\* The version, the key, account, password, the character, the challenge.
ParseGameLogin(payload) ==
    LET r == Reading(payload, <<"u8", "u16", "u16", "u32", "u8", "u16">>)
        block == DecryptPrivate(SubSeq(r.left, 1, SealedSize)).got
        inner == Reading(block, <<"u8", "u32", "u32", "u32", "u32", "u8", "text", "text", "u32", "u8">>)
        session == SplitSessionKey(inner.got[7])
    IN  IF ~ r.ok \/ Len(r.left) < SealedSize \/ r.got[1] # 10 \/ ~ inner.ok \/ inner.got[1] # 0
           \/ ~ session.ok
        THEN Refused
        ELSE Parsed(<<r.got[3], SubSeq(inner.got, 2, 5), session.got[1], session.got[2], inner.got[8],
                      SubSeq(inner.got, 9, 10)>>)

\* A login is let in when it echoes the challenge, in a version it knows.
Admitted(login, challenge) ==
    /\ login.ok /\ login.got[6] = challenge
    /\ login.got[1] \in ClientVersions

\* The challenge goes out with a length of its own and no encryption.
Challenge(c) == LET body == <<31>> \o U32(c[1]) \o U8(c[2])
                IN  WriteFrame(Checksummed(U16(Len(body)) \o body))

=============================================================================
