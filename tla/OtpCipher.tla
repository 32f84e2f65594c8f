----------------------------- MODULE OtpCipher -----------------------------
(***************************************************************************)
(* One message of c/otp_encrypt_comm on its way: otp.c checks and encrypts *)
(* a line of a plaintext file with a line of a key file, otp_d.c parses    *)
(* the request and stores the ciphertext, and another otp.c decrypts it.   *)
(* The loops of the code are steps, a character is its code.               *)
(***************************************************************************)
EXTENDS Integers, Sequences

CONSTANTS Files,    \* contents of plaintext files: one line, newline-terminated or not
          Keys,     \* what keygen.c prints, without the newline that ends it
          Garbage   \* values the uninitialised `numeric' of encrypt() may hold

Space == 32
Comma == 44
NewLine == 10
Nul == 0
EOF == -1
Letter == 65..90
Alphabet == Letter \cup {Space}

Text(f) == IF f[Len(f)] = NewLine THEN SubSeq(f, 1, Len(f) - 1) ELSE f

ASSUME FilesAssumption ==
         Files \subseteq {f \in Seq(Nat) : /\ f # <<>>
                                           /\ \A k \in 1..Len(f) - 1 : f[k] # NewLine
                                           /\ \A k \in 1..Len(f) : f[k] # Nul}
\* keygen.c 15-20: every character is 65 + (rand() % 27), with 91 replaced by 32
KeyChar == {IF 65 + r = 91 THEN Space ELSE 65 + r : r \in 0..26}
ASSUME KeysAssumption == Keys \subseteq Seq(KeyChar)
ASSUME GarbageAssumption == Garbage \subseteq Int

VARIABLES plaintext_file, key,      \* the two files the poster names
          pc, ret_flag, i, numeric, \* control and locals of encrypt() and decrypt()
          ciphertext,               \* global_cipher, the second field of the request
          stored,                   \* the line the daemon keeps in the mailbox file
          get_key,                  \* the key the getter names
          plaintext                 \* what decrypt() prints
cipherVars == <<plaintext_file, key, pc, ret_flag, i, numeric, ciphertext, stored,
                get_key, plaintext>>

ErrorMsg == <<33, 69, 82, 82, 79, 82, 33>>      \* "!ERROR!"

\* The % of C truncates toward zero.
CRem(a, n) == IF a >= 0 THEN a % n ELSE -((-a) % n)
Value(c) == IF c = Space THEN 26 ELSE c - 65
\* Seeded fault: 26 is not turned back into a space.
CharNoSpace(v) == v + 65

Char(v) == IF v = 26 THEN Space ELSE v + 65
\* fgetc on the key file: its characters, its newline, then EOF
KeyFileChar(k, n) == IF n <= Len(k) THEN k[n]
                     ELSE IF n = Len(k) + 1 THEN NewLine ELSE EOF
EncryptChar(v, kc) == Char(CRem(v + Value(kc), 27))
\* Seeded fault: no 27 is added to a negative difference.
DecryptCharNoWrap(c, kc) == Char(CRem(Value(c) - Value(kc), 27))

DecryptChar(c, kc) == LET d == Value(c) - Value(kc)
                      IN  Char(IF d < 0 THEN d + 27 ELSE d % 27)

\* fgets, then the last character is dropped, newline or not
plaintext_line == SubSeq(plaintext_file, 1, Len(plaintext_file) - 1)
\* strlen(key_line): the newline is still there
KeyLineLen == Len(key) + 1

CipherInit ==
    /\ plaintext_file \in Files
    /\ key \in Keys
    /\ numeric \in Garbage
    /\ pc = "size" /\ ret_flag = FALSE /\ i = 1
    /\ ciphertext = <<>> /\ stored = <<>> /\ get_key = key /\ plaintext = <<>>

Poster == <<plaintext_file, key>>

CheckSize ==
    /\ pc = "size"
    /\ ret_flag' = (Len(plaintext_line) > KeyLineLen)
    /\ pc' = "chars"
    /\ UNCHANGED <<Poster, i, numeric, ciphertext, stored, get_key, plaintext>>

\* strlen(plaintext_line)-1 is unsigned: the loop runs past an empty line, and
\* stops at its terminating NUL, which is no valid character.
MoreToCheck == plaintext_line = <<>> \/ i <= Len(plaintext_line) - 1
InvalidHere == (IF plaintext_line = <<>> THEN Nul ELSE plaintext_line[i]) \notin Alphabet

CheckChar ==
    /\ pc = "chars"
    /\ MoreToCheck /\ ~InvalidHere
    /\ i' = i + 1
    /\ UNCHANGED <<Poster, pc, ret_flag, numeric, ciphertext, stored, get_key, plaintext>>

RejectChar ==
    /\ pc = "chars"
    /\ MoreToCheck /\ InvalidHere
    /\ ret_flag' = TRUE
    /\ pc' = "error"
    /\ UNCHANGED <<Poster, i, numeric, ciphertext, stored, get_key, plaintext>>

EndOfCheck ==
    /\ pc = "chars"
    /\ ~MoreToCheck
    /\ pc' = IF ret_flag THEN "error" ELSE "encrypt"
    /\ i' = 1
    /\ UNCHANGED <<Poster, ret_flag, numeric, ciphertext, stored, get_key, plaintext>>

\* main() replaces the ciphertext of a failed encrypt() by the error message.
SendError ==
    /\ pc = "error"
    /\ ciphertext' = ErrorMsg
    /\ pc' = "request"
    /\ UNCHANGED <<Poster, ret_flag, i, numeric, stored, get_key, plaintext>>

\* A character outside the alphabet leaves `numeric' as the previous one set it.
NumericAfter(c) == IF c \in Alphabet THEN Value(c) ELSE numeric

MoreToEncrypt == i <= Len(plaintext_file) /\ plaintext_file[i] # NewLine

EncryptNext ==
    /\ pc = "encrypt"
    /\ MoreToEncrypt
    /\ numeric' = NumericAfter(plaintext_file[i])
    /\ ciphertext' = Append(ciphertext, EncryptChar(numeric', KeyFileChar(key, i)))
    /\ i' = i + 1
    /\ UNCHANGED <<Poster, pc, ret_flag, stored, get_key, plaintext>>

EncryptEnd ==
    /\ pc = "encrypt"
    /\ ~MoreToEncrypt
    /\ pc' = "request"
    /\ UNCHANGED <<Poster, ret_flag, i, numeric, ciphertext, stored, get_key, plaintext>>

\* strtok(buffer, ",") skips empty fields: a token starts where a run of other
\* characters starts.  The first token of "user,ciphertext," is the user.
TokenStarts(s) == {k \in 1..Len(s) : s[k] # Comma /\ (k = 1 \/ s[k - 1] = Comma)}
TokenEnd(s, k) == CHOOSE e \in k..Len(s) : /\ \A n \in k..e : s[n] # Comma
                                           /\ e = Len(s) \/ s[e + 1] = Comma

\* One field besides the user: a POST.  The error message is not stored.
DispatchPost ==
    /\ pc = "request"
    /\ \E k \in 1..Len(ciphertext) :
         /\ TokenStarts(ciphertext) = {k}
         /\ LET field == SubSeq(ciphertext, k, TokenEnd(ciphertext, k))
            IN  IF field = ErrorMsg
                THEN pc' = "rejected" /\ stored' = stored
                ELSE pc' = "stored" /\ stored' = field
    /\ UNCHANGED <<Poster, ret_flag, i, numeric, ciphertext, get_key, plaintext>>

\* No field besides the user: the daemon takes the request for a GET.
DispatchAsGet ==
    /\ pc = "request"
    /\ TokenStarts(ciphertext) = {}
    /\ pc' = "misread"
    /\ UNCHANGED <<Poster, ret_flag, i, numeric, ciphertext, stored, get_key, plaintext>>

\* More than one: "unable to determine client request", the child exits.
DispatchFails ==
    /\ pc = "request"
    /\ \E j, k \in TokenStarts(ciphertext) : j # k
    /\ pc' = "dropped"
    /\ UNCHANGED <<Poster, ret_flag, i, numeric, ciphertext, stored, get_key, plaintext>>

\* A GET, with the poster's key file or another one, receives the stored line.
ReceiveCipher(k) ==
    /\ pc = "stored"
    /\ get_key' = k
    /\ i' = 1
    /\ pc' = "decrypt"
    /\ UNCHANGED <<Poster, ret_flag, numeric, ciphertext, stored, plaintext>>

MoreToDecrypt == i <= Len(stored) /\ stored[i] \in Alphabet

DecryptNext ==
    /\ pc = "decrypt"
    /\ MoreToDecrypt
    /\ plaintext' = Append(plaintext, DecryptChar(stored[i], KeyFileChar(get_key, i)))
    /\ i' = i + 1
    /\ UNCHANGED <<Poster, pc, ret_flag, numeric, ciphertext, stored, get_key>>

DecryptEnd ==
    /\ pc = "decrypt"
    /\ ~MoreToDecrypt
    /\ pc' = "done"
    /\ UNCHANGED <<Poster, ret_flag, i, numeric, ciphertext, stored, get_key, plaintext>>

CipherNext ==
    \/ CheckSize \/ CheckChar \/ RejectChar \/ EndOfCheck \/ SendError
    \/ EncryptNext \/ EncryptEnd
    \/ DispatchPost \/ DispatchAsGet \/ DispatchFails
    \/ \E k \in Keys : ReceiveCipher(k)
    \/ DecryptNext \/ DecryptEnd

CipherSpec == CipherInit /\ [][CipherNext]_cipherVars
-----------------------------------------------------------------------------
Pcs == {"size", "chars", "error", "encrypt", "request", "stored", "rejected",
        "misread", "dropped", "decrypt", "done"}

\* Every variable holds a value of the kind the C declares: codes, indices, flags.
CipherTypeOK ==
    /\ plaintext_file \in Files /\ key \in Keys /\ get_key \in Keys
    /\ pc \in Pcs /\ ret_flag \in BOOLEAN
    /\ i \in Nat \ {0} /\ numeric \in Int
    /\ ciphertext \in Seq(Int) /\ stored \in Seq(Int) /\ plaintext \in Seq(Int)

\* What encrypt() is meant to accept: characters A-Z and space only, and a key
\* at least as long as the message.
Message == Text(plaintext_file)
Valid == \A n \in 1..Len(Message) : Message[n] \in Alphabet
Covered == Len(Message) <= Len(key)
Sound == Message # <<>> /\ Valid /\ Covered

\* A sound message is never refused, never loses or gains a character, never
\* puts a byte on the wire that strtok or decrypt() would stop at, and so is
\* always stored whole.
SoundIsStored ==
    Sound => /\ pc \notin {"misread", "dropped"}
             /\ pc = "rejected" => Len(Message) = 1 /\ Message = plaintext_file
             /\ pc \in {"stored", "decrypt", "done"} =>
                   /\ stored = ciphertext
                   /\ Len(stored) = Len(Message)
                   /\ \A n \in 1..Len(stored) : stored[n] \in Alphabet


\* What the two checks of encrypt() guarantee of anything they let through: all
\* but the last characters are valid and have a key character.  The slack is one
\* character, two when the file does not end in a newline.
Slack == IF Message = plaintext_file THEN 2 ELSE 1

\* Decrypted with the key it was encrypted with, a sound message is the message again.  Of
\* another one that was accepted and stored, all but the last character survive, if its
\* file ends in a newline; of one without, nothing is said.
RoundTrip ==
    (pc = "done" /\ get_key = key) =>
        /\ Sound => plaintext = Message
        /\ Slack = 1 /\ Len(Message) > 1 =>
              /\ Len(plaintext) \in {Len(Message) - 1, Len(Message)}
              /\ \A n \in 1..Len(Message) - 1 : plaintext[n] = Message[n]

=============================================================================
