----------------------------- MODULE SecretsVault ---------------------------
(* The vault is one encrypted file.  set_secret and delete_secret read all of  *)
(* it, change one key and write all of it; requests run in threads, and        *)
(* nothing locks the file.  The passphrase comes with the request or from the  *)
(* settings.                                                                   *)
EXTENDS Naturals

CONSTANTS
  Writers,      \* threads of the API that change the vault
  Names,        \* VAULT_KEYS
  Secrets,      \* values
  Passphrases,
  MaxChanges    \* bound: requests

ASSUME VaultAssumption == MaxChanges \in Nat /\ Names # {} /\ Passphrases # {}

VARIABLES
  vault,        \* the file
  writer,       \* requests in progress
  changes,      \* how many requests have begun
  intended,     \* history: what the completed requests asked for
  exposed,      \* history: names changed while another request held a copy
  died          \* history: a writer died, or two of them wrote at once

vaultVars == <<vault, writer, changes, intended, exposed, died>>

Missing == "missing"
Contents == [Names -> Secrets \cup {Missing}]
Nothing == [n \in Names |-> Missing]
NoPass == "no passphrase"
VaultFiles == [state : {"absent", "broken", "sealed"}, data : Contents,
               pass : Passphrases \cup {NoPass}]
WriterStages == {"idle", "copied", "encrypted", "truncated"}
Changes == [pc : WriterStages, name : Names, value : Secrets \cup {Missing},
            pass : Passphrases, copy : Contents]
IdleWriter == [pc |-> "idle", name |-> CHOOSE n \in Names : TRUE, value |-> Missing,
               pass |-> CHOOSE p \in Passphrases : TRUE, copy |-> Nothing]

VaultInit ==
  /\ vault = [state |-> "absent", data |-> Nothing, pass |-> NoPass]
  /\ writer = [w \in Writers |-> IdleWriter]
  /\ changes = 0
  /\ intended = Nothing
  /\ exposed = {}
  /\ died = FALSE

\* _read_vault succeeds: no file yet, or one that this passphrase opens.
Opens(pass) ==
  \/ vault.state = "absent"
  \/ vault.state = "sealed" /\ vault.pass = pass

\* set_secret, or delete_secret when the value is Missing: the copy with its
\* change.  A broken file or another passphrase ends the request here.
ReadAll(w, n, value, pass) ==
  /\ writer[w].pc = "idle"
  /\ changes < MaxChanges
  /\ changes' = changes + 1
  /\ IF Opens(pass)
     THEN writer' = [writer EXCEPT ![w] = [pc |-> "copied", name |-> n, value |-> value,
                       pass |-> pass, copy |-> [vault.data EXCEPT ![n] = value]]]
     ELSE UNCHANGED writer
  /\ UNCHANGED <<vault, intended, exposed, died>>

\* _write_vault reads the file once more, for its salt.
Encrypt(w) ==
  /\ writer[w].pc = "copied"
  /\ writer' = [writer EXCEPT ![w].pc = IF vault.state = "broken" THEN "idle" ELSE "encrypted"]
  /\ UNCHANGED <<vault, changes, intended, exposed, died>>

\* path.write_text empties the file ...
Truncate(w) ==
  /\ writer[w].pc = "encrypted"
  /\ vault' = [state |-> "broken", data |-> Nothing, pass |-> NoPass]
  /\ writer' = [writer EXCEPT ![w].pc = "truncated"]
  /\ UNCHANGED <<changes, intended, exposed, died>>

\* Mutant: the value is kept under its name alone.
SealedAlone(w) == [Nothing EXCEPT ![writer[w].name] = writer[w].value]

Sealed(w) == writer[w].copy

\* ... and fills it.  A text that somebody else has written in the meantime is
\* overwritten from its beginning, and may be the longer one.
Fill(w) ==
  /\ writer[w].pc = "truncated"
  /\ \E state \in {"sealed", "broken"} :
       /\ state = "broken" => vault.state = "sealed"
       /\ vault' = IF state = "broken" THEN [state |-> state, data |-> Nothing, pass |-> NoPass]
                   ELSE [state |-> state, data |-> Sealed(w), pass |-> writer[w].pass]
       /\ died' = (died \/ state = "broken")
  /\ intended' = [intended EXCEPT ![writer[w].name] = writer[w].value]
  /\ exposed' = IF \E v \in Writers \ {w} : writer[v].pc # "idle"
                THEN exposed \cup {writer[w].name} ELSE exposed
  /\ writer' = [writer EXCEPT ![w] = IdleWriter]
  /\ UNCHANGED changes

\* The process ends, or encrypting or writing raises.
WriterDies(w) ==
  /\ writer[w].pc # "idle"
  /\ writer' = [writer EXCEPT ![w] = IdleWriter]
  /\ died' = (died \/ writer[w].pc = "truncated")
  /\ UNCHANGED <<vault, changes, intended, exposed>>

VaultNext ==
  \/ \E w \in Writers, n \in Names, s \in Secrets \cup {Missing}, p \in Passphrases :
       ReadAll(w, n, s, p)
  \/ \E w \in Writers : Encrypt(w) \/ Truncate(w) \/ Fill(w) \/ WriterDies(w)

VaultSpec == VaultInit /\ [][VaultNext]_vaultVars

-----------------------------------------------------------------------------
Writing == {w \in Writers : writer[w].pc = "truncated"}

VaultTypeOK ==
  /\ vault \in VaultFiles
  /\ writer \in [Writers -> Changes]
  /\ changes \in 0..MaxChanges
  /\ intended \in Contents
  /\ exposed \subseteq Names
  /\ died \in BOOLEAN

\* Whole-file writes keep the other keys: once no write is under way, a key
\* holds what the last completed request for it asked for, unless another
\* request held a copy of the vault when it was changed, or a writer died with
\* the file empty.  The vault is readable as long as no writer did.
KeysKept ==
  (Writing = {} /\ ~died) =>
    /\ vault.state # "broken"
    /\ \A n \in Names \ exposed : vault.data[n] = intended[n]
=============================================================================
