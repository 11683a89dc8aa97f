---------------------------- MODULE RefreshToken ----------------------------
(***************************************************************************)
(* The OAuth tokens of the Graph and the IMAP poller: fetchAccessToken     *)
(* caches the access token, exchanges the refresh token when the cache has *)
(* run out, and hands a rotated refresh token to                           *)
(* config.PersistRefreshToken, which rewrites .env for the next start.     *)
(*                                                                         *)
(* A refresh token is single-use, as the code says of Microsoft's: once    *)
(* the server has rotated it, only the newest one is accepted.  Tokens are *)
(* numbered in the order they are issued.  p.mu and ingest.OnDemand let    *)
(* one exchange run at a time, so there is one process.                    *)
(***************************************************************************)
EXTENDS Integers

CONSTANTS
    EnvFile,     \* .env is in the working directory
    Lives,       \* lifetimes the server gives; 0 when expires_in is left out
    Hour,        \* the lifetime that then holds, on both sides
    Margin,      \* the 60 seconds an access token is dropped early
    Delay,       \* HTTP timeout: from the issue of a token to its expiry date
    MaxTokens,   \* bound: refresh tokens ever issued
    MaxTime,     \* bound: the clock
    MaxFaults    \* bound: crashes, lost replies, failed writes, refusals

ASSUME EnvFileAssumption == EnvFile \in BOOLEAN
ASSUME LivesAssumption ==
    Lives \subseteq Nat /\ Hour \in Nat /\ \A l \in (Lives \ {0}) \cup {Hour} : l > Delay
ASSUME MarginAssumption == Margin \in Nat /\ Delay \in 0..Margin
ASSUME BoundsAssumption == MaxTokens \in Nat /\ MaxTime \in Nat /\ MaxFaults \in Nat

VARIABLES
    now,
    valid,     \* the refresh token the server accepts
    file,      \* .env: not there, cut by an unfinished write, or with a token
    pc,        \* down, idle, before the reply, before ReadFile, before and
               \* after the O_TRUNC of WriteFile, before the cache is filled
    refresh,   \* p.RefreshToken, 0 while the process is down
    access,    \* p.accessToken: when it dies at the server, 0 for none
    expiry,    \* p.tokenExpiry
    reply,     \* the token response under way
    handed,    \* when the token returned in this step dies, -1 for none
    hurt,      \* an exchange or its write to .env was broken off (history)
    faults     \* faults so far (only for the bound)

vars == <<now, valid, file, pc, refresh, access, expiry, reply, handed, hurt, faults>>

EnvToken == 1    \* the token the deployment put into the environment

Files == [state : {"none", "cut", "whole"}, token : Nat]
Replies == [refresh : Nat, life : Nat, issued : Nat]

TypeOK ==
    /\ now \in Nat /\ valid \in Nat \ {0}
    /\ file \in Files /\ (file.state = "none" <=> ~EnvFile)
    /\ file.state = "whole" => file.token # 0
    /\ pc \in {"down", "idle", "reply", "read", "truncate", "write", "cache"}
    /\ pc \in {"truncate", "write"} => EnvFile
    /\ refresh \in Nat /\ (refresh = 0 <=> pc = "down")
    /\ access \in Nat /\ expiry \in Int
    /\ reply \in Replies
    /\ handed \in Nat \cup {-1}
    /\ hurt \in BOOLEAN /\ faults \in 0..MaxFaults

Init ==
    /\ now = 0 /\ valid = EnvToken
    /\ file = IF EnvFile THEN [state |-> "whole", token |-> EnvToken]
              ELSE [state |-> "none", token |-> 0]
    /\ pc = "down" /\ refresh = 0 /\ access = 0 /\ expiry = 0
    /\ reply = [refresh |-> 0, life |-> 0, issued |-> 0]
    /\ handed = -1 /\ hurt = FALSE /\ faults = 0

Fault == faults < MaxFaults /\ faults' = faults + 1

-----------------------------------------------------------------------------
(* Starting: config.Load                                                   *)

\* What the next start will use.  godotenv.Overload lets .env win over the
\* environment.
Stored == IF file.state = "none" THEN EnvToken ELSE file.token

\* A cut .env has no API_KEY either: Load refuses, and the service manager
\* tries again.
StartRefused ==
    /\ pc = "down" /\ file.state = "cut"
    /\ UNCHANGED vars

Start ==
    /\ pc = "down" /\ file.state # "cut"
    /\ refresh' = Stored /\ pc' = "idle"
    /\ handed' = -1
    /\ UNCHANGED <<now, valid, file, access, expiry, reply, hurt, faults>>

-----------------------------------------------------------------------------
(* fetchAccessToken                                                        *)

Cached == access # 0 /\ now < expiry

UseCached ==
    /\ pc = "idle" /\ Cached
    /\ handed' = access
    /\ UNCHANGED <<now, valid, file, pc, refresh, access, expiry, reply, hurt, faults>>

\* The server accepts the token and rotates it or, at its choice, sends none.
Exchange ==
    /\ pc = "idle" /\ ~Cached /\ refresh = valid
    /\ \E rotates \in BOOLEAN, l \in Lives :
        /\ rotates => valid < MaxTokens
        /\ valid' = IF rotates THEN valid + 1 ELSE valid
        /\ reply' = [refresh |-> IF rotates THEN valid' ELSE 0,
                     life |-> l, issued |-> now]
    /\ pc' = "reply" /\ handed' = -1
    /\ UNCHANGED <<now, file, refresh, access, expiry, hurt, faults>>

\* invalid_grant for a token that was rotated away, or the endpoint is out of
\* order: fetchAccessToken returns an error and changes nothing.
ExchangeRefused ==
    /\ pc = "idle" /\ ~Cached
    /\ IF refresh = valid THEN Fault ELSE UNCHANGED faults
    /\ handed' = -1
    /\ UNCHANGED <<now, valid, file, pc, refresh, access, expiry, reply, hurt>>

\* The answer does not arrive: a timeout, a broken connection, or Close of
\* ingest.OnDemand cancelled the request.
ReplyLost ==
    /\ pc = "reply" /\ Fault
    /\ pc' = "idle" /\ hurt' = TRUE /\ handed' = -1
    /\ UNCHANGED <<now, valid, file, refresh, access, expiry, reply>>

\* mutant: only the first rotation of a run is taken
RotatedOnce(t) == t # 0 /\ t # refresh /\ access = 0
Rotated(t) == t # 0 /\ t # refresh

Reply ==
    /\ pc = "reply"
    /\ IF Rotated(reply.refresh)
       THEN refresh' = reply.refresh /\ pc' = "read"
       ELSE pc' = "cache" /\ UNCHANGED refresh
    /\ handed' = -1
    /\ UNCHANGED <<now, valid, file, access, expiry, reply, hurt, faults>>

Lifetime == IF reply.life = 0 THEN Hour ELSE reply.life

\* mutant: the token is kept for its whole lifetime
NextExpiryInFull == now + Lifetime
NextExpiry == now + Lifetime - Margin

Cache ==
    /\ pc = "cache"
    /\ access' = reply.issued + Lifetime
    /\ expiry' = NextExpiry
    /\ handed' = access'
    /\ pc' = "idle"
    /\ UNCHANGED <<now, valid, file, refresh, reply, hurt, faults>>

-----------------------------------------------------------------------------
(* OnRotated: config.PersistRefreshToken.  Its error is only logged.       *)

\* Without .env the read fails.  A line of the key is replaced, or one is added.
ReadEnv ==
    /\ pc = "read"
    /\ pc' = IF file.state = "none" THEN "cache" ELSE "truncate"
    /\ handed' = -1
    /\ UNCHANGED <<now, valid, file, refresh, access, expiry, reply, hurt, faults>>

\* os.WriteFile truncates the file and then writes it.
TruncateEnv ==
    /\ pc = "truncate"
    /\ file' = [state |-> "cut", token |-> 0]
    /\ pc' = "write" /\ handed' = -1
    /\ UNCHANGED <<now, valid, refresh, access, expiry, reply, hurt, faults>>

WriteEnv ==
    /\ pc = "write"
    /\ file' = [state |-> "whole", token |-> refresh]
    /\ pc' = "cache" /\ handed' = -1
    /\ UNCHANGED <<now, valid, refresh, access, expiry, reply, hurt, faults>>

PersistFails ==
    /\ pc \in {"read", "truncate", "write"} /\ Fault
    /\ pc' = "cache" /\ hurt' = TRUE /\ handed' = -1
    /\ UNCHANGED <<now, valid, file, refresh, access, expiry, reply>>

-----------------------------------------------------------------------------
(* Around it                                                               *)

Tick ==
    /\ now < MaxTime
    /\ pc \notin {"down", "idle"} => now < reply.issued + Delay
    /\ now' = now + 1 /\ handed' = -1
    /\ UNCHANGED <<valid, file, pc, refresh, access, expiry, reply, hurt, faults>>

Crash ==
    /\ pc # "down" /\ Fault
    /\ pc' = "down" /\ refresh' = 0 /\ access' = 0 /\ expiry' = 0
    /\ hurt' = (hurt \/ pc \in {"reply", "read", "truncate", "write"})
    /\ handed' = -1
    /\ UNCHANGED <<now, valid, file, reply>>

Next ==
    \/ Start \/ StartRefused
    \/ UseCached \/ Exchange \/ ExchangeRefused \/ ReplyLost \/ Reply \/ Cache
    \/ ReadEnv \/ TruncateEnv \/ WriteEnv \/ PersistFails
    \/ Tick \/ Crash

Spec == Init /\ [][Next]_vars

-----------------------------------------------------------------------------
(* Properties                                                              *)

\* A token that fetchAccessToken returns is still alive at the server, whether
\* it comes from the cache or took up to the HTTP timeout to arrive.
HandedIsAlive == handed # -1 => now < handed

\* The grant survives: as long as no exchange and no write was broken off, the
\* process holds the token the server accepts, and so does whatever the next
\* start will read.
GrantSurvives ==
    ~hurt =>
        /\ pc = "idle" => refresh = valid
        /\ pc \in {"idle", "down"} /\ EnvFile => file.state = "whole"
        /\ pc \in {"idle", "down"} => Stored = valid

\* README.md:377 has GRAPH_REFRESH_TOKEN rotated back into .env, and
\* config/config.go:328-330 says that without this "the next process start
\* fails with invalid_grant": after an undisturbed exchange the next start has
\* a token the server accepts.
RotationIsSaved == ~hurt /\ pc = "idle" => Stored = valid
=============================================================================
