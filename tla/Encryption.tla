----------------------------- MODULE Encryption -----------------------------
(***************************************************************************)
(* whz::whz_encryption: the key pair, its two files, and the encryption of *)
(* a file.  Password hashes, signatures and tokens are calls of libsodium  *)
(* that leave nothing behind and are not modelled.                         *)
(*                                                                         *)
(* Key pairs are numbered as they are generated; pair 0 is the zeros of a  *)
(* vector that was only resized, and NoKey a key file that is missing or   *)
(* was not written to the end.  A text is what a file held, or with cut    *)
(* a beginning of it only.                                                 *)
(***************************************************************************)
EXTENDS Naturals

CONSTANTS
    PlainTexts,     \* what the file may hold
    MaxPairs        \* bound: calls of crypto_box_keypair that succeed

ASSUME PlainTextsAssumption == PlainTexts \cap {"empty", "absent", "zeros"} = {}
ASSUME MaxPairsAssumption == MaxPairs \in Nat

VARIABLES
    pairs,          \* the number of pairs generated
    publicKey, secretKey,       \* the caller's vectors
    public_key, secret_key,     \* the files public.key and secret.key
    generate,       \* the step of generateKeyPair
    saved,          \* history: how the last generateKeyPair ended
    plain,          \* the file: a text, empty or absent
    enc,            \* the file with .enc
    original,       \* history: what was encrypted into it
    restored,       \* history: what decryptFile last wrote, and how the write
                    \* ended: none, cut or whole
    validated       \* what the last call, a validateKeyPair, returned

key_vars == <<pairs, publicKey, secretKey, public_key, secret_key, generate, saved>>

file_vars == <<plain, enc, original, restored>>

crypto_vars == <<key_vars, file_vars, validated>>

NoKey == [pair |-> 0, whole |-> FALSE]
KeyFile(pair) == [pair |-> pair, whole |-> TRUE]

uncut(t) == [of |-> t, cut |-> FALSE]
beginning(t) == [of |-> t.of, cut |-> TRUE]

no_enc == [kind |-> "absent", key |-> 0, text |-> uncut("empty")]

not_restored == [write |-> "none", text |-> uncut("empty")]

unvalidated == [pk |-> 0, sk |-> 0, valid |-> FALSE]

CryptoInit ==
    /\ pairs = 0
    /\ publicKey = 0 /\ secretKey = 0
    /\ public_key = NoKey /\ secret_key = NoKey
    /\ generate = "idle"
    /\ saved = "none"
    /\ plain = uncut("absent")
    /\ enc = no_enc
    /\ original = uncut("empty")
    /\ restored = not_restored
    /\ validated = unvalidated

NewPair == pairs < MaxPairs /\ pairs' = pairs + 1

\* generateKeyPair(), up to the first file.
GenerateKeyPair ==
    /\ generate = "idle"
    /\ NewPair
    /\ publicKey' = pairs + 1 /\ secretKey' = pairs + 1
    /\ generate' = "public"
    /\ saved' = "running"
    /\ validated' = unvalidated
    /\ UNCHANGED <<public_key, secret_key, file_vars>>

\* The return after an error.
Abandon ==
    /\ generate' = "idle"
    /\ saved' = "failed"

KeypairFails ==
    /\ generate = "idle"
    /\ pairs < MaxPairs
    /\ Abandon
    /\ validated' = unvalidated
    /\ UNCHANGED <<pairs, publicKey, secretKey, public_key, secret_key, file_vars>>

OpenKeyFileFails ==
    /\ generate \in {"public", "secret"}
    /\ Abandon
    /\ UNCHANGED <<pairs, publicKey, secretKey, public_key, secret_key, file_vars,
                   validated>>

\* Writes are not checked: the call goes on, whether the file is whole or not.
SavePublicKey ==
    /\ generate = "public"
    /\ public_key' \in {KeyFile(publicKey), NoKey}
    /\ generate' = "secret"
    /\ UNCHANGED <<pairs, publicKey, secretKey, secret_key, saved, file_vars, validated>>

\* Mutant: the pair is replaced before the secret key is saved.
SaveSecretKey_late ==
    /\ generate = "secret"
    /\ secret_key' \in {KeyFile(secretKey + 1), NoKey}
    /\ generate' = "again"
    /\ UNCHANGED <<pairs, publicKey, secretKey, public_key, saved, file_vars, validated>>

SaveSecretKey ==
    /\ generate = "secret"
    /\ secret_key' \in {KeyFile(secretKey), NoKey}
    /\ generate' = "again"
    /\ UNCHANGED <<pairs, publicKey, secretKey, public_key, saved, file_vars, validated>>

\* The end of generateKeyPair(): a second pair replaces the saved one in the
\* caller's vectors.
GenerateAgain ==
    /\ generate = "again"
    /\ NewPair
    /\ publicKey' = pairs + 1 /\ secretKey' = pairs + 1
    /\ generate' = "idle"
    /\ saved' = "both"
    /\ UNCHANGED <<public_key, secret_key, file_vars, validated>>

GenerateAgainFails ==
    /\ generate = "again"
    /\ generate' = "idle"
    /\ saved' = "both"
    /\ UNCHANGED <<pairs, publicKey, secretKey, public_key, secret_key, file_vars,
                   validated>>

\* crypto_box_seal refuses the zero key; crypto_box_seal_open succeeds with
\* the pair it was sealed for.
seal_opens(sealed_for, pk, sk) == sealed_for # 0 /\ pk = sealed_for /\ sk = sealed_for

\* The keys at hand: those of the vectors, and those read from the files.
PublicKeys == {publicKey, public_key.pair}
SecretKeys == {secretKey, secret_key.pair}

ValidateKeyPair ==
    /\ generate = "idle"
    /\ \E pk \in PublicKeys, sk \in SecretKeys :
        validated' = [pk |-> pk, sk |-> sk, valid |-> seal_opens(pk, pk, sk)]
    /\ UNCHANGED <<key_vars, file_vars>>

\* encryptFile(): without a return after the errors.  A file that does not
\* open is encrypted as the empty text, a text that is not sealed leaves
\* zeros; the result is written in any case, and perhaps not to the end, or
\* not at all if the output does not open.
EncryptFile ==
    /\ generate = "idle"
    /\ \/ UNCHANGED <<enc, original>>
       \/ \E pk \in PublicKeys, opens \in BOOLEAN :
            LET given == IF opens /\ plain.of # "absent" THEN plain ELSE uncut("empty")
            IN  /\ original' = given
                /\ enc' \in {[kind |-> "broken", key |-> 0, text |-> uncut("empty")]}
                           \cup (IF pk = 0 THEN {}
                                 ELSE {[kind |-> "sealed", key |-> pk, text |-> given]})
    /\ restored' = not_restored
    /\ validated' = unvalidated
    /\ UNCHANGED <<key_vars, plain>>

\* The output of decryptFile(), over the file the .enc was made of: neither the
\* open nor the write is checked.
Output(t) ==
    \/ UNCHANGED <<plain, restored>>
    \/ plain' = beginning(t) /\ restored' = [write |-> "cut", text |-> beginning(t)]
    \/ plain' = t /\ restored' = [write |-> "whole", text |-> t]

\* Mutant: what failed to decrypt is written.
DecryptFile_unchecked ==
    /\ generate = "idle"
    /\ enc.kind # "absent"
    /\ \E sk \in SecretKeys, indeterminate \in 0..pairs :
        Output(IF enc.kind = "sealed" /\ seal_opens(enc.key, indeterminate, sk)
               THEN enc.text ELSE uncut("zeros"))
    /\ validated' = unvalidated
    /\ UNCHANGED <<key_vars, enc, original>>

\* decryptFile(), when the text is decrypted.  Its public key is an
\* uninitialised array, which may hold anything.
DecryptFile ==
    /\ generate = "idle"
    /\ enc.kind = "sealed"
    /\ \E sk \in SecretKeys, indeterminate \in 0..pairs :
        seal_opens(enc.key, indeterminate, sk)
    /\ Output(enc.text)
    /\ validated' = unvalidated
    /\ UNCHANGED <<key_vars, enc, original>>

\* decryptFile() returns early: no file, a short one, or none that opens.
DecryptFails ==
    /\ generate = "idle"
    /\ \/ enc.kind # "sealed"
       \/ \E sk \in SecretKeys, indeterminate \in 0..pairs :
             ~seal_opens(enc.key, indeterminate, sk)
    /\ validated' = unvalidated
    /\ UNCHANGED <<key_vars, file_vars>>

\* Somebody else writes or removes the file.
EditPlain ==
    /\ plain' \in {uncut(t) : t \in PlainTexts \cup {"absent"}}
    /\ UNCHANGED <<key_vars, enc, original, restored, validated>>

CryptoNext ==
    \/ GenerateKeyPair \/ KeypairFails \/ OpenKeyFileFails
    \/ SavePublicKey \/ SaveSecretKey \/ GenerateAgain \/ GenerateAgainFails
    \/ ValidateKeyPair \/ EncryptFile \/ DecryptFile \/ DecryptFails
    \/ EditPlain

CryptoSpec == CryptoInit /\ [][CryptoNext]_crypto_vars

----------------------------------------------------------------------------
\* The key files hold one pair once a generateKeyPair() has saved both in
\* full, and the vectors always do: a public key saved before a failure, next
\* to the secret key of an earlier call, is the only mixture.
KeyFilesMatch ==
    /\ saved = "both" /\ public_key.whole /\ secret_key.whole =>
          public_key.pair = secret_key.pair
    /\ publicKey = secretKey

\* Whatever calls, failures and edits came between, decryptFile() writes
\* nothing over the file but the text encryptFile() was given, or a beginning
\* of it where the unchecked write is cut short: never an earlier text, nor
\* bytes that did not decrypt, although its public key is an uninitialised
\* array.
DecryptRestores ==
    /\ restored.write = "whole" => restored.text = original
    /\ restored.write = "cut" => restored.text = beginning(original)

\* generateKeyPair() returns the pair that it saves.
ReturnedIsSaved ==
    saved = "both" /\ public_key.whole /\ secret_key.whole =>
        publicKey = public_key.pair /\ secretKey = secret_key.pair
=============================================================================
