---------------------------- MODULE KnowledgeHead ----------------------------
(***************************************************************************)
(* What knowledge evolution promises a reader of one identity, without     *)
(* records, locks or staging: a numbered head that only moves forward one  *)
(* version at a time.  Moving it hides it for a moment (the predecessor is *)
(* superseded before the successor is activated); it then comes back.      *)
(***************************************************************************)
EXTENDS Naturals

CONSTANTS Keys, Contents, NoContent

VARIABLES
  version,   \* key -> number of versions so far
  content,   \* key -> content of the head
  readable   \* key -> an active record can be read

hvars == <<version, content, readable>>

HeadInit ==
  /\ version = [k \in Keys |-> 0]
  /\ content = [k \in Keys |-> NoContent]
  /\ readable = [k \in Keys |-> FALSE]

\* insert_new: the first version is readable at once
Insert(k) ==
  /\ version[k] = 0
  /\ version' = [version EXCEPT ![k] = 1]
  /\ \E c \in Contents : content' = [content EXCEPT ![k] = c]
  /\ readable' = [readable EXCEPT ![k] = TRUE]

\* evolve: the point of no return is superseding the predecessor
Advance(k) ==
  /\ readable[k]
  /\ version' = [version EXCEPT ![k] = @ + 1]
  /\ \E c \in Contents : content' = [content EXCEPT ![k] = c]
  /\ readable' = [readable EXCEPT ![k] = FALSE]

\* activation of the successor
Reveal(k) ==
  /\ version[k] > 0 /\ ~readable[k]
  /\ readable' = [readable EXCEPT ![k] = TRUE]
  /\ UNCHANGED <<version, content>>

HeadNext == \E k \in Keys : Insert(k) \/ Advance(k) \/ Reveal(k)

HeadSafety == HeadInit /\ [][HeadNext]_hvars

\* A hidden head comes back.  Whoever hides it need not do it: it takes the next
\* writer of the key, or the next start of a process.
HeadReturns(k) == WF_hvars(Reveal(k))

HeadSpec == HeadSafety /\ \A k \in Keys : HeadReturns(k)
==============================================================================
