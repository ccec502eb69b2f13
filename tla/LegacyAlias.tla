----------------------------- MODULE LegacyAlias ----------------------------
(***************************************************************************)
(* AdaptiveCodec of logorrhythm/legacy/adaptive.py: a message seen often   *)
(* enough is replaced by an alias.  Codecs write for readers along Links,  *)
(* in order; a codec that reads what it wrote itself is a link to itself.  *)
(***************************************************************************)
EXTENDS Integers, Sequences, Functions

CONSTANTS Codecs, Links,  \* Links \subseteq Codecs \X Codecs
          Messages,
          WarmupHits,     \* warmup_hits
          MaxAlias,       \* 255 in the code: an alias is one byte
          MaxSent         \* bound: messages sent

VARIABLES hits,     \* _hits
          aliases,  \* _alias_to_message, for each codec; _message_to_alias is its inverse
          wire,     \* for each link, what was written and not read: [sent, alias or message]
          read,     \* what the last decode made of what: [sent, got], or raised
          sent

aliasVars == <<hits, aliases, wire, read, sent>>

Raised == "raised"

AliasInit ==
  /\ hits = [c \in Codecs |-> [m \in Messages |-> 0]]
  /\ aliases = [c \in Codecs |-> <<>>]
  /\ wire = [l \in Links |-> <<>>]
  /\ read = <<>> /\ sent = 0

Hit(c, m) == hits' = [hits EXCEPT ![c][m] = @ + 1]

\* Mutant: the last alias goes to every further message.
LearnsAny(c, m) == hits'[c][m] >= WarmupHits

\* aliases are given in order: the next is Len(aliases[c]) + 1
Learns(c, m) == hits'[c][m] >= WarmupHits /\ Len(aliases[c]) < MaxAlias

AliasOf(table, m) == CHOOSE i \in DOMAIN table : table[i] = m

GiveAlias(table, m) ==
  IF Len(table) < MaxAlias THEN Append(table, m) ELSE [table EXCEPT ![MaxAlias] = m]

EncodeMessage(l, m) ==
  LET c == l[1]
  IN  /\ sent < MaxSent /\ sent' = sent + 1
      /\ Hit(c, m)
      /\ aliases' = IF m \notin Range(aliases[c]) /\ Learns(c, m)
                    THEN [aliases EXCEPT ![c] = GiveAlias(@, m)] ELSE aliases
      /\ wire' = [wire EXCEPT ![l] = Append(@,
                    IF m \in Range(aliases'[c])
                    THEN [sent |-> m, alias |-> AliasOf(aliases'[c], m)]
                    ELSE [sent |-> m, alias |-> 0])]
      /\ UNCHANGED read

\* What is read in full counts as a hit; nothing is learned.
DecodeMessage(l) ==
  LET frame == Head(wire[l])
      c     == l[2]
  IN  /\ wire[l] # <<>> /\ wire' = [wire EXCEPT ![l] = Tail(@)]
      /\ IF frame.alias = 0
         THEN Hit(c, frame.sent) /\ read' = [sent |-> frame.sent, got |-> frame.sent]
         ELSE /\ UNCHANGED hits
              /\ read' = [sent |-> frame.sent,
                          got  |-> IF frame.alias \in DOMAIN aliases[c] THEN aliases[c][frame.alias]
                                   ELSE Raised]
      /\ UNCHANGED <<aliases, sent>>

AliasNext == \E l \in Links : DecodeMessage(l) \/ \E m \in Messages : EncodeMessage(l, m)

AliasSpec == AliasInit /\ [][AliasNext]_aliasVars
-----------------------------------------------------------------------------
\* adaptive.py:11, "Learns repeated messages and assigns compact session aliases":
\* what is read is what was written, also when the aliases have run out.
ReadsAsWritten == read # <<>> => read.got = read.sent
=============================================================================
