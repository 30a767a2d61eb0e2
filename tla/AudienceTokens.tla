--------------------------- MODULE AudienceTokens ---------------------------
(***************************************************************************)
(* pkg/auth/audience_token.go: outbound tokens.  Goroutines of one service *)
(* ask one ServiceClient for tokens to different callees; it keeps one     *)
(* token source per audience, made under a mutex from a copy of a shared   *)
(* base configuration.  A source mints a token for the audience its        *)
(* configuration names, or fails; oauth2 then reuses it until it expires.  *)
(***************************************************************************)
EXTENDS Naturals

CONSTANTS Caller,      \* goroutines
          Audience,    \* audiences of the callees
          NoAudience,  \* the empty audience, or no audience parameter
          MaxMints     \* bound: tokens minted

ASSUME AudienceAssumption == NoAudience \notin Audience /\ MaxMints \in Nat

VARIABLES
  base,     \* oauthCfg: the audience parameter of the shared configuration
  sources,  \* audSources: what each source's configuration names
  cached,   \* audiences whose source holds a token that has not expired
  asks,     \* asks[c]: the audience c asked for
  gets,     \* gets[c]: history: the audience of the token c got last
  mints     \* history: tokens minted

tokenVars == <<base, sources, cached, asks, gets, mints>>

TokensInit ==
  /\ base = NoAudience
  /\ sources = <<>> /\ cached = {} /\ mints = 0
  /\ asks = [c \in Caller |-> NoAudience]
  /\ gets = [c \in Caller |-> NoAudience]

(* ErrEmptyAudience: nothing is minted, nothing is cached. *)
Refuse(c) == asks[c] = NoAudience /\ UNCHANGED tokenVars

(* Mutant of NewSource: the shared configuration is written to, and every     *)
(* source reads it.                                                           *)
NewSharedSource(a) ==
  /\ base' = a
  /\ sources' = [x \in DOMAIN sources \cup {a} |-> a]

(* A copy of the base with the audience put in. *)
NewSource(a) ==
  /\ sources' = [x \in DOMAIN sources \cup {a} |-> IF x = a THEN a ELSE sources[x]]
  /\ UNCHANGED base

(* tokenSourceFor *)
tokenSourceFor(c, a) ==
  /\ asks[c] = NoAudience
  /\ IF a \in DOMAIN sources THEN UNCHANGED <<base, sources>> ELSE NewSource(a)
  /\ asks' = [asks EXCEPT ![c] = a]
  /\ UNCHANGED <<cached, gets, mints>>

(* ts.Token: the token it has, or one it mints for what it was made for. *)
GetToken(c) ==
  /\ asks[c] # NoAudience
  /\ asks[c] \in cached \/ mints < MaxMints
  /\ mints' = IF asks[c] \in cached THEN mints ELSE mints + 1
  /\ cached' = cached \cup {asks[c]}
  /\ gets' = [gets EXCEPT ![c] = sources[asks[c]]]
  /\ asks' = [asks EXCEPT ![c] = NoAudience]
  /\ UNCHANGED <<base, sources>>

MintFails(c) ==
  /\ asks[c] # NoAudience /\ asks[c] \notin cached
  /\ asks' = [asks EXCEPT ![c] = NoAudience]
  /\ UNCHANGED <<base, sources, cached, gets, mints>>

TokenExpires(a) ==
  /\ a \in cached
  /\ cached' = cached \ {a}
  /\ UNCHANGED <<base, sources, asks, gets, mints>>

TokensNext ==
  \/ \E c \in Caller : Refuse(c) \/ GetToken(c) \/ MintFails(c)
                       \/ \E a \in Audience : tokenSourceFor(c, a)
  \/ \E a \in Audience : TokenExpires(a)

TokensSpec == TokensInit /\ [][TokensNext]_tokenVars

(* A caller's token is for the audience it asked for, whoever else asks for   *)
(* which audience in between: what a source was made for never changes        *)
(* (audience_token.go: "copy; do not mutate the shared base").                *)
MintedForAudience ==
  [][\A c \in Caller : gets'[c] # gets[c] => gets'[c] = asks[c]]_tokenVars
=============================================================================
