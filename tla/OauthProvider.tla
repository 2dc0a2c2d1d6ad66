---------------------------- MODULE OauthProvider ----------------------------
(***************************************************************************)
(* The OAuth mock (pkg/oauth): authorization codes, refresh tokens and the *)
(* list of revoked tokens, three tables with a lock each; requests of the  *)
(* endpoints in flight, the cleanup loop and time.                         *)
(*                                                                         *)
(* Codes and tokens are numbers in the order they were made.  An access    *)
(* token is a signed JWT the provider does not keep: oaAccess is what the  *)
(* clients hold.  Claims, scopes and ID tokens are left out, except that a *)
(* request may ask for a scope that is not supported.                      *)
(***************************************************************************)
EXTENDS Naturals, FiniteSets, Functions

CONSTANTS
  OaClients,      \* clients [id, grants]
  OaReqs,         \* token requests in flight
  OaCodeLife, OaTokenLife, OaRefreshLife,
  OaRetention,    \* how long a revocation is kept
  OaMaxCodes, OaMaxRefresh, OaMaxRevoked,
  OaClock,        \* bound: time
  OaMade          \* bound: codes and tokens made

VARIABLES
  oaNow,
  oaCodes,        \* code -> [client, uri, challenge, exp]
  oaRefresh,      \* refresh token -> [client, exp]
  oaRevoked,      \* revoked token -> time of revocation
  oaAccess,       \* access token -> [exp, code], code 0 unless it came from one
  oaReq,          \* request -> [pc, client, code, token]
  oaRevoking,     \* tokens being revoked: removed, not yet marked
  oaDone,         \* auxiliary: tokens whose revocation was confirmed
  oaMade

oaVars == <<oaNow, oaCodes, oaRefresh, oaRevoked, oaAccess, oaReq, oaRevoking, oaDone, oaMade>>
oaRevs == <<oaRevoked, oaRevoking, oaDone>>

OaIdle == [pc |-> "idle", client |-> "", code |-> 0, token |-> 0]

OaInit ==
  /\ oaNow = 0 /\ oaCodes = <<>> /\ oaRefresh = <<>> /\ oaRevoked = <<>> /\ oaAccess = <<>>
  /\ oaReq = [r \in OaReqs |-> OaIdle] /\ oaRevoking = {} /\ oaDone = {} /\ oaMade = 0

OaGrants(c, grant) == grant \in c.grants
OaNew(n) == oaMade + n <= OaMade /\ oaMade' = oaMade + n
OaPut(table, id, entry) == [k \in DOMAIN table \cup {id} |-> IF k = id THEN entry ELSE table[k]]
OaDrop(table, ids) == Restrict(table, DOMAIN table \ ids)
OaExpired(table) == {k \in DOMAIN table : oaNow > table[k].exp}

\* A table over its limit loses the expired entries, then those that expire first
OaCapped(table, max) ==
  LET live == DOMAIN table \ OaExpired(table)
      keep == {s \in SUBSET live : /\ Cardinality(s) = max
                                   /\ \A k \in s, l \in live \ s : table[k].exp >= table[l].exp}
  IN  IF Cardinality(DOMAIN table) <= max THEN {table}
      ELSE IF Cardinality(live) <= max THEN {Restrict(table, live)}
      ELSE {Restrict(table, s) : s \in keep}

StoreAuthorizationCode(id, entry) == oaCodes' \in OaCapped(OaPut(oaCodes, id, entry), OaMaxCodes)
StoreRefreshToken(id, entry) == oaRefresh' \in OaCapped(OaPut(oaRefresh, id, entry), OaMaxRefresh)

-----------------------------------------------------------------------------
(* Authorize *)

\* response_type=code: a code for a known client, with or without a PKCE challenge; every
\* refusal leaves the provider alone
HandleAuthorize(c, uri, challenge) ==
  /\ OaGrants(c, "authorization_code") /\ OaNew(1)
  /\ StoreAuthorizationCode(oaMade + 1,
       [client |-> c.id, uri |-> uri, challenge |-> challenge, exp |-> oaNow + OaCodeLife])
  /\ UNCHANGED <<oaNow, oaRefresh, oaAccess, oaReq, oaRevs>>

GenerateToken(id, code) == oaAccess' = OaPut(oaAccess, id, [exp |-> oaNow + OaTokenLife, code |-> code])

\* response_type=token, and the client_credentials grant: an access token at once
OaImplicit ==
  /\ OaNew(1) /\ GenerateToken(oaMade + 1, 0)
  /\ UNCHANGED <<oaNow, oaCodes, oaRefresh, oaReq, oaRevs>>

handleClientCredentialsGrant(c) ==
  /\ OaGrants(c, "client_credentials") /\ OaNew(1) /\ GenerateToken(oaMade + 1, 0)
  /\ UNCHANGED <<oaNow, oaCodes, oaRefresh, oaReq, oaRevs>>

-----------------------------------------------------------------------------
(* Token requests *)

\* The client is known, its secret right and the grant allowed; what is refused before
\* the tables are looked at changes nothing
OaMay(r, c, grant) == oaReq[r].pc = "idle" /\ OaGrants(c, grant)
OaAt(r, c, pc, code, token) ==
  oaReq' = [oaReq EXCEPT ![r] = [pc |-> pc, client |-> c.id, code |-> code, token |-> token]]

\* Mutant: the code goes when the tokens are made
exchangeKeeps(r, c, code, uri) ==
  /\ OaMay(r, c, "authorization_code") /\ OaAt(r, c, "exchanged", code, 0)
  /\ UNCHANGED <<oaNow, oaCodes, oaRefresh, oaAccess, oaRevs, oaMade>>

\* The code is used up before it is looked at
ExchangeAuthorizationCode(r, c, code, uri) ==
  LET entry == oaCodes[code] IN
  /\ OaMay(r, c, "authorization_code")
  /\ oaCodes' = OaDrop(oaCodes, {code})
  /\ IF oaNow > entry.exp \/ entry.client # c.id \/ entry.uri # uri
       THEN UNCHANGED oaReq
       ELSE OaAt(r, c, IF entry.challenge THEN "pkce" ELSE "exchanged", code, 0)
  /\ UNCHANGED <<oaNow, oaRefresh, oaAccess, oaRevs, oaMade>>

\* The verifier fits the challenge, or is missing or wrong
verifyCodeChallenge(r) ==
  /\ oaReq[r].pc = "pkce"
  /\ \E ok \in BOOLEAN : oaReq' = [oaReq EXCEPT ![r] = IF ok THEN [@ EXCEPT !.pc = "exchanged"] ELSE OaIdle]
  /\ UNCHANGED <<oaNow, oaCodes, oaRefresh, oaAccess, oaRevs, oaMade>>

\* The access token, and a refresh token when the client may refresh
OaIssue(r, c, code) ==
  /\ OaNew(2) /\ GenerateToken(oaMade + 1, code)
  /\ IF OaGrants(c, "refresh_token")
       THEN StoreRefreshToken(oaMade + 2, [client |-> c.id, exp |-> oaNow + OaRefreshLife])
       ELSE UNCHANGED oaRefresh
  /\ oaReq' = [oaReq EXCEPT ![r] = OaIdle]
  /\ UNCHANGED <<oaNow, oaCodes, oaRevs>>

handleAuthorizationCodeGrant(r) ==
  oaReq[r].pc = "exchanged" /\ \E c \in OaClients : c.id = oaReq[r].client /\ OaIssue(r, c, oaReq[r].code)

\* The user's name and password are right
handlePasswordGrant(r, c) == OaMay(r, c, "password") /\ OaIssue(r, c, 0)

\* An expired refresh token is deleted when it is presented
ValidateRefreshToken(r, c, t) ==
  /\ OaMay(r, c, "refresh_token")
  /\ oaRefresh' = IF oaNow > oaRefresh[t].exp THEN OaDrop(oaRefresh, {t}) ELSE oaRefresh
  /\ IF oaNow > oaRefresh[t].exp \/ oaRefresh[t].client # c.id
       THEN UNCHANGED oaReq ELSE OaAt(r, c, "refresh", 0, t)
  /\ UNCHANGED <<oaNow, oaCodes, oaAccess, oaRevs, oaMade>>

\* The same refresh token is returned
handleRefreshTokenGrant(r) ==
  /\ oaReq[r].pc = "refresh" /\ OaNew(1) /\ GenerateToken(oaMade + 1, 0)
  /\ oaReq' = [oaReq EXCEPT ![r] = OaIdle]
  /\ UNCHANGED <<oaNow, oaCodes, oaRefresh, oaRevs>>

-----------------------------------------------------------------------------
(* Revocation and cleanup *)


\* RevokeToken: from the refresh tokens under one lock, into the revoked ones under another
HandleRevoke(t) ==
  /\ t \in DOMAIN oaAccess \cup DOMAIN oaRefresh /\ t \notin oaRevoking \cup oaDone
  /\ oaRevoking' = oaRevoking \cup {t} /\ oaRefresh' = OaDrop(oaRefresh, {t})
  /\ UNCHANGED <<oaNow, oaCodes, oaAccess, oaReq, oaRevoked, oaDone, oaMade>>

OaOld(table) == {k \in DOMAIN table : table[k] + OaRetention < oaNow}

\* Over the limit the old entries go, then the oldest ones
RevokeToken(t) ==
  LET marked == OaPut(oaRevoked, t, oaNow)
      young  == DOMAIN marked \ OaOld(marked)
      kept   == {s \in SUBSET young : /\ Cardinality(s) = OaMaxRevoked
                                      /\ \A k \in s, l \in young \ s : marked[k] >= marked[l]}
  IN  /\ t \in oaRevoking /\ oaRevoking' = oaRevoking \ {t} /\ oaDone' = oaDone \cup {t}
      /\ oaRevoked' \in IF Cardinality(DOMAIN marked) <= OaMaxRevoked THEN {marked}
                        ELSE IF Cardinality(young) <= OaMaxRevoked THEN {Restrict(marked, young)}
                        ELSE {Restrict(marked, s) : s \in kept}
      /\ UNCHANGED <<oaNow, oaCodes, oaRefresh, oaAccess, oaReq, oaMade>>

\* One tick of cleanupLoop
cleanupExpiredTokens ==
  /\ oaCodes' = OaDrop(oaCodes, OaExpired(oaCodes)) /\ oaRefresh' = OaDrop(oaRefresh, OaExpired(oaRefresh))
  /\ oaRevoked' = OaDrop(oaRevoked, OaOld(oaRevoked))
  /\ UNCHANGED <<oaNow, oaAccess, oaReq, oaRevoking, oaDone, oaMade>>

OaTick ==
  /\ oaNow < OaClock /\ oaNow' = oaNow + 1
  /\ UNCHANGED <<oaCodes, oaRefresh, oaRevoked, oaAccess, oaReq, oaRevoking, oaDone, oaMade>>

OaRequest(r) ==
  \/ \E c \in OaClients :
       \/ \E code \in DOMAIN oaCodes, uri \in {"u", "v"} : ExchangeAuthorizationCode(r, c, code, uri)
       \/ \E t \in DOMAIN oaRefresh : ValidateRefreshToken(r, c, t)
       \/ handlePasswordGrant(r, c)
  \/ verifyCodeChallenge(r) \/ handleAuthorizationCodeGrant(r) \/ handleRefreshTokenGrant(r)

OaNext ==
  \/ \E c \in OaClients : \/ \E ch \in BOOLEAN : HandleAuthorize(c, "u", ch)
                          \/ handleClientCredentialsGrant(c)
  \/ OaImplicit \/ \E r \in OaReqs : OaRequest(r)
  \/ \E t \in 1 .. OaMade : HandleRevoke(t) \/ RevokeToken(t)
  \/ cleanupExpiredTokens \/ OaTick

\* What a bearer token is worth: not revoked, and not expired
ValidateToken(t) == t \notin DOMAIN oaRevoked /\ t \in DOMAIN oaAccess /\ oaNow < oaAccess[t].exp

\* The user's claims are returned
HandleUserInfo(t) == ValidateToken(t)

\* Whether a token, presented by a client, is reported active
HandleIntrospect(t) == ValidateToken(t)

-----------------------------------------------------------------------------
(* Properties *)

OaTypeOK ==
  /\ Cardinality(DOMAIN oaCodes) <= OaMaxCodes /\ Cardinality(DOMAIN oaRefresh) <= OaMaxRefresh
  /\ Cardinality(DOMAIN oaRevoked) <= OaMaxRevoked
  /\ oaNow \in 0 .. OaClock /\ oaMade \in 0 .. OaMade /\ oaRevoking \cap oaDone = {}
  /\ \A r \in OaReqs : oaReq[r].code \in 0 .. OaMade /\ oaReq[r].token \in 0 .. OaMade

\* "Authorization codes are single-use": whatever requests race for a code, and whenever
\* it is evicted or cleaned up, one of them at most gets tokens for it.
OaCodeOnce ==
  /\ \A t, u \in DOMAIN oaAccess : t # u /\ oaAccess[t].code = oaAccess[u].code => oaAccess[t].code = 0
  /\ \A r, q \in OaReqs : r # q /\ oaReq[r].code = oaReq[q].code => oaReq[r].code = 0
  /\ \A r \in OaReqs, t \in DOMAIN oaAccess : oaReq[r].code = oaAccess[t].code => oaReq[r].code = 0

\* A token whose revocation was confirmed is never accepted again: the revocation is kept
\* until an access token has expired by itself, and a refresh token is gone for good, as
\* long as the list of revocations never had to give way to new ones.
OaRevokedStays ==
  \A t \in oaDone : /\ t \notin DOMAIN oaRefresh
                    /\ Cardinality(oaDone) <= OaMaxRevoked =>
                           ~HandleUserInfo(t) /\ ~HandleIntrospect(t)

=============================================================================
