------------------------------- MODULE Tokens -------------------------------
(***************************************************************************)
(* The token endpoint of shared/authsrv: authorization codes exchanged     *)
(* once, access and refresh tokens, rotation, and the revocation of a      *)
(* family when a rotated token comes back.                                 *)
(*                                                                         *)
(* Every store call of a handler is a step and may fail.  A platform       *)
(* presents what it was given, as often and as late as it likes; a token   *)
(* is known outside only once the answer that carries it was sent.         *)
(***************************************************************************)
EXTENDS Naturals, FiniteSets

CONSTANTS
  Codes,     \* authorization codes; the family a code starts is named after it
  Handlers,  \* POST /token requests in progress
  MaxTokens, \* how many token pairs may be minted
  NoFamily

ASSUME TokensAssumption == MaxTokens \in Nat /\ NoFamily \notin Codes

VARIABLES
  code,     \* auth_codes
  refresh,  \* refresh_tokens, by the number of the pair
  access,   \* access_tokens, by the number of the pair
  handler,  \* the /token handlers
  sent,     \* the pairs some platform was sent
  revoked,  \* history: the families revoked for reuse
  doubled,  \* history: families with one token in two handlers at once
  late      \* history: families with a rotation under way when revoked

tvars == <<code, refresh, access, handler, sent, revoked, doubled, late>>

Pairs == 1 .. MaxTokens
Idle == [pc |-> "idle", fam |-> NoFamily, from |-> 0, pair |-> 0]
NoRow == [fam |-> NoFamily, used |-> FALSE, revoked |-> FALSE, old |-> FALSE]
Steps == {"mark", "access", "refresh"}

TokensInit ==
  /\ code = [c \in Codes |-> "live"]
  /\ refresh = [p \in Pairs |-> NoRow]
  /\ access = [p \in Pairs |-> "none"]
  /\ handler = [h \in Handlers |-> Idle]
  /\ sent = {}
  /\ revoked = {} /\ doubled = {} /\ late = {}

\* A pair of numbers nobody has drawn (randomToken).
Fresh == {p \in Pairs : refresh[p].fam = NoFamily /\ access[p] = "none"
                        /\ \A h \in Handlers : handler[h].pair # p}
Draw == CHOOSE p \in Fresh : TRUE

Usable(p) == refresh[p].fam # NoFamily /\ ~refresh[p].used /\ ~refresh[p].revoked /\ ~refresh[p].old

----------------------------------------------------------------------------
\* TakeAuthCode: looked up and deleted in one transaction, whatever follows.
TakeAuthCode(c) == code' = [code EXCEPT ![c] = "gone"]

\* tokenFromCode: client, redirect and PKCE verifier are checked after the code
\* was taken (good).
TokenFromCode(h, c, good) ==
  /\ handler[h].pc = "idle" /\ code[c] = "live" /\ Fresh # {}
  /\ TakeAuthCode(c)
  /\ IF good
     THEN /\ handler' = [handler EXCEPT ![h] = [pc |-> "access", fam |-> c, from |-> 0, pair |-> Draw]]
     ELSE UNCHANGED handler
  /\ UNCHANGED <<refresh, access, sent, revoked, doubled, late>>

\* A refresh that does not look whether the family was revoked.
AcceptsRevoked(p) == ~refresh[p].old

\* tokenFromRefresh's first look at the row.
Accepts(p) == ~refresh[p].revoked /\ ~refresh[p].old

\* tokenFromRefresh up to the branch on Used, by the client the token is for.
TokenFromRefresh(h, p) ==
  /\ handler[h].pc = "idle" /\ p \in sent /\ Accepts(p)
  /\ handler' = [handler EXCEPT ![h] =
       [pc |-> IF refresh[p].used THEN "revoke" ELSE "mark", fam |-> refresh[p].fam, from |-> p, pair |-> 0]]
  /\ doubled' = IF \E g \in Handlers : handler[g].pc = "mark" /\ handler[g].from = p
                THEN doubled \cup {refresh[p].fam} ELSE doubled
  /\ UNCHANGED <<code, refresh, access, sent, revoked, late>>

\* RevokeRefreshFamily, then OnFamilyRevoked.
RevokeFamily(h) ==
  LET f == handler[h].fam IN
  /\ handler[h].pc = "revoke"
  /\ refresh' = [p \in Pairs |-> IF refresh[p].fam = f THEN [refresh[p] EXCEPT !.revoked = TRUE]
                                 ELSE refresh[p]]
  /\ handler' = [handler EXCEPT ![h] = Idle]
  /\ revoked' = revoked \cup {f}
  /\ late' = IF \E g \in Handlers : handler[g].pc \in Steps /\ handler[g].fam = f
             THEN late \cup {f} ELSE late
  /\ UNCHANGED <<code, access, sent, doubled>>

\* MarkRefreshTokenUsed.
Mark(h) == refresh' = [refresh EXCEPT ![handler[h].from].used = TRUE]

MarkUsed(h) ==
  /\ handler[h].pc = "mark" /\ Fresh # {}
  /\ Mark(h)
  /\ handler' = [handler EXCEPT ![h].pc = "access", ![h].pair = Draw]
  /\ UNCHANGED <<code, access, sent, revoked, doubled, late>>

\* issueTokens, PutAccessToken.
PutAccess(h) ==
  /\ handler[h].pc = "access"
  /\ access' = [access EXCEPT ![handler[h].pair] = "live"]
  /\ handler' = [handler EXCEPT ![h].pc = "refresh"]
  /\ UNCHANGED <<code, refresh, sent, revoked, doubled, late>>

\* issueTokens, PutRefreshToken and the answer.
PutRefresh(h) ==
  LET p == handler[h].pair IN
  /\ handler[h].pc = "refresh"
  /\ refresh' = [refresh EXCEPT ![p].fam = handler[h].fam]
  /\ sent' = sent \cup {p}
  /\ handler' = [handler EXCEPT ![h] = Idle]
  /\ UNCHANGED <<code, access, revoked, doubled, late>>

\* A store call fails: storeFailed, server_error or the plain refusal.  What
\* was written before it stays written.
StoreFails(h) ==
  /\ handler[h].pc # "idle"
  /\ handler' = [handler EXCEPT ![h] = Idle]
  /\ UNCHANGED <<code, refresh, access, sent, revoked, doubled, late>>

\* A lifetime passes: authCodeTTL, accessTokenTTL or refreshTokenTTL.  Reads
\* treat the record as absent, PurgeExpired removes it later.
Expires ==
  /\ \/ \E c \in Codes : code[c] = "live" /\ TakeAuthCode(c) /\ UNCHANGED <<access, refresh>>
     \/ \E p \in Pairs : /\ access[p] = "live"
                         /\ access' = [access EXCEPT ![p] = "old"] /\ UNCHANGED <<code, refresh>>
     \/ \E p \in Pairs : /\ refresh[p].fam # NoFamily /\ ~refresh[p].old
                         /\ refresh' = [refresh EXCEPT ![p].old = TRUE] /\ UNCHANGED <<code, access>>
  /\ UNCHANGED <<handler, sent, revoked, doubled, late>>

TokensNext ==
  \/ \E h \in Handlers, c \in Codes, good \in BOOLEAN : TokenFromCode(h, c, good)
  \/ \E h \in Handlers, p \in Pairs : TokenFromRefresh(h, p)
  \/ \E h \in Handlers : RevokeFamily(h) \/ MarkUsed(h) \/ PutAccess(h) \/ PutRefresh(h) \/ StoreFails(h)
  \/ Expires

TokensSpec == TokensInit /\ [][TokensNext]_tvars

----------------------------------------------------------------------------
\* Rotation and reuse detection: of a family's refresh tokens at most one can be used,
\* unless one token was presented twice at the same moment, and none once the family
\* was revoked for reuse, unless a rotation was then between its check and its last
\* write.
OneUsableToken ==
  \A p \in Pairs : Usable(p) =>
    /\ refresh[p].fam \in revoked => refresh[p].fam \in late
    /\ \A q \in Pairs \ {p} : Usable(q) /\ refresh[q].fam = refresh[p].fam => refresh[p].fam \in doubled

=============================================================================
