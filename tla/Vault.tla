------------------------------- MODULE Vault -------------------------------
(***************************************************************************)
(* What the archive promises about attachments: it keeps every one it has  *)
(* come to know of, and never loses one it keeps.  Blobs implements it.    *)
(***************************************************************************)
CONSTANTS Attachments,   \* everything that hangs off some record
          Obtainable     \* the attachments the content host will serve

VARIABLES known,   \* the attachments seen in a payload
          kept     \* the attachments whose bytes are in the archive

vaultVars == <<known, kept>>

VaultTypeOK == known \subseteq Attachments /\ kept \subseteq known

VaultInit == known = {} /\ kept = {}

Learn(seen) == known' = known \cup seen /\ UNCHANGED kept

Keep(a) == a \in known \ kept /\ kept' = kept \cup {a} /\ UNCHANGED known

VaultNext == (\E seen \in SUBSET Attachments : Learn(seen)) \/ (\E a \in Attachments : Keep(a))

\* Nothing is forgotten and nothing is kept that was not known.
VaultSafe == VaultInit /\ [][VaultNext]_vaultVars

\* Whatever is known and can be had is kept some day.
VaultSpec == VaultSafe /\ \A a \in Obtainable : WF_vaultVars(Keep(a))

============================================================================
