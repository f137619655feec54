------------------------------- MODULE ApiTokens ------------------------------
(***************************************************************************)
(* ApiTokenStore and the handlers around it.  Like the accounts, the       *)
(* tokens are changed in memory and then saved as a whole, and a save that *)
(* raises leaves the change in memory only.  authenticate saves as well,   *)
(* so a request with a good token fails when the disk is full.             *)
(***************************************************************************)
CONSTANTS
  Tokens,    \* token ids, each drawn once
  Scopes

\* A token has a scope at least, so no scopes stand for no token.
NoToken == {}

VARIABLES
  tokens,      \* _tokens: the scopes of each token, or NoToken
  tokenDisk,   \* api_tokens.json
  minted,      \* ids drawn so far
  shown,       \* ids whose cleartext waits in a session for its one display
  holds,       \* ghost: ids the operator was given, since the last start that could not
               \* read the file, and has not tried to revoke
  revoked      \* ghost: ids the operator was told are revoked

tokenVars == <<tokens, tokenDisk, minted, shown, holds, revoked>>

SaveTokens(all, ok) ==
  /\ tokens' = all
  /\ tokenDisk' = IF ok THEN all ELSE tokenDisk

NewToken(t, scopes, ok) == SaveTokens([tokens EXCEPT ![t] = scopes], ok)

\* settings_api_tokens_mint; without a scope the form is refused.
Mint(t, scopes, ok) ==
  /\ scopes # {}
  /\ t \notin minted
  /\ minted' = minted \union {t}
  /\ NewToken(t, scopes, ok)
  /\ shown' = IF ok THEN shown \union {t} ELSE shown
  /\ holds' = IF ok THEN holds \union {t} ELSE holds
  /\ UNCHANGED revoked

\* settings_api_tokens pops the cleartext from the session and shows it.
ShowToken(t) ==
  /\ t \in shown
  /\ shown' = shown \ {t}
  /\ UNCHANGED <<tokens, tokenDisk, minted, holds, revoked>>

\* mutant: the token is taken off the disk with the next save.
RevokeUnsaved(t, ok) == tokens' = [tokens EXCEPT ![t] = NoToken] /\ UNCHANGED tokenDisk

RevokeToken(t, ok) == SaveTokens([tokens EXCEPT ![t] = NoToken], ok)

\* settings_api_tokens_revoke and revoke.
Revoke(t, ok) ==
  /\ tokens[t] # NoToken
  /\ RevokeToken(t, ok)
  /\ holds' = holds \ {t}
  /\ revoked' = IF ok THEN revoked \union {t} ELSE revoked
  /\ UNCHANGED <<minted, shown>>

\* authenticate: a match is saved as last_used.
Authenticate(t, ok) ==
  /\ tokens[t] # NoToken
  /\ SaveTokens(tokens, ok)
  /\ UNCHANGED <<minted, shown, holds, revoked>>

\* _load: a file that cannot be read counts as empty, and the next save replaces it.
LoadedTokens(readable) == IF readable THEN tokenDisk ELSE [t \in Tokens |-> NoToken]

\* The agent dies and starts again; sessions are cookies, and stay.
TokensRestart(readable) ==
  /\ tokens' = LoadedTokens(readable)
  /\ holds' = IF readable THEN holds ELSE {}
  /\ UNCHANGED <<tokenDisk, minted, shown, revoked>>

TokensInit ==
  /\ tokens = [t \in Tokens |-> NoToken]
  /\ tokenDisk = tokens
  /\ minted = {}
  /\ shown = {}
  /\ holds = {}
  /\ revoked = {}

TokensNext ==
  \/ \E t \in Tokens, ok \in BOOLEAN :
       \/ \E scopes \in SUBSET Scopes : Mint(t, scopes, ok)
       \/ Revoke(t, ok)
       \/ Authenticate(t, ok)
  \/ \E t \in Tokens : ShowToken(t)
  \/ \E readable \in BOOLEAN : TokensRestart(readable)

TokensSpec == TokensInit /\ [][TokensNext]_tokenVars

\* What operators were told about tokens holds now and after a restart: one they
\* were given is accepted until they try to revoke it, or a start cannot read the
\* file, and one they were told is revoked is refused, whichever saves failed before,
\* between and after.
TokensAreAsTold ==
  /\ \A t \in holds : tokens[t] # NoToken /\ tokenDisk[t] # NoToken
  /\ \A t \in revoked : tokens[t] = NoToken /\ tokenDisk[t] = NoToken
===============================================================================
