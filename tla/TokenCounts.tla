----------------------------- MODULE TokenCounts -----------------------------
(***************************************************************************)
(* The tokens a broker may ask a dslink for, and how often each may be     *)
(* used: the node of a token has $$count, which is one less after each     *)
(* use and is saved with the node. What a use grants is in Links.          *)
(***************************************************************************)
EXTENDS Integers

CONSTANTS
  Tokens,
  Count,      \* $$count of a new token, or Unlimited
  Unlimited,  \* a token without $$count
  Gone        \* a token that is not there

ASSUME TokenConstants ==
  /\ Count \in [Tokens -> Nat \cup {Unlimited}]
  /\ Unlimited \notin Nat /\ Gone \notin Nat /\ Gone # Unlimited

VARIABLES
  tokens,     \* children of /sys/tokens/root: $$count
  tokenFiles, \* the files of the tokens
  used        \* history: conn requests granted with the token

Counts == UNION {IF Count[t] = Unlimited THEN {Unlimited} ELSE 0..Count[t] : t \in Tokens}

\* get_token_node
Valid(t) == tokens[t] # Gone /\ tokens[t] # 0

\* token_used
Spent(t) == IF tokens[t] = Unlimited THEN tokens ELSE [tokens EXCEPT ![t] = @ - 1]
\* Mutant: the new count is not saved.
SpentInMemory(t) == tokenFiles
\* save_token_node
SpentSaved(t) == Spent(t)

\* "how many times this token can be used" (token.c:499), across restarts
TokenUses == \A t \in Tokens : Count[t] # Unlimited => used[t] <= Count[t]
=============================================================================
