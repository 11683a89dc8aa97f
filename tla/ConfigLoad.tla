----------------------------- MODULE ConfigLoad ------------------------------
(***************************************************************************)
(* config.Load as a table: which settings start the server, and with which *)
(* ways for mail to come in.  A setting is whether it is given, or which   *)
(* of its cases it is; ports, names and intervals are left out.            *)
(***************************************************************************)

Env == [apiKey : BOOLEAN,         \* API_KEY
        domains : BOOLEAN,        \* MAIL_DOMAIN names a domain but example.com
        ints : BOOLEAN,           \* every number parses
        webhook : BOOLEAN,        \* WEBHOOK_SECRET
        smtp : BOOLEAN,           \* SMTP_ENABLED
        graph : BOOLEAN,          \* GRAPH_ENABLED
        graphApp : BOOLEAN,       \* GRAPH_CLIENT_ID and GRAPH_REFRESH_TOKEN
        graphAccount : BOOLEAN,   \* GRAPH_ACCOUNT
        imapHost : BOOLEAN,       \* IMAP_HOST
        provider : {"none", "known", "unknown"},    \* IMAP_PROVIDER
        oauth2 : BOOLEAN,         \* IMAP_AUTH_MODE
        imapApp : BOOLEAN,        \* IMAP_CLIENT_ID and IMAP_REFRESH_TOKEN
        imapUser : BOOLEAN,       \* IMAP_USER
        imapPass : BOOLEAN]       \* IMAP_PASS

\* a preset fills in the host
HasImapHost(e) == e.imapHost \/ e.provider = "known"

\* The early return for a server without a relay inbox; in the mutant it is
\* taken by every server that listens itself.
AnySmtp(e) == e.smtp
SmtpOnly(e) == e.smtp /\ ~e.graph /\ ~HasImapHost(e)

\* The checks in their order, up to the return of a configuration
Loads(e) ==
    /\ e.provider # "unknown" /\ e.ints
    /\ e.apiKey /\ e.domains
    /\ \/ SmtpOnly(e)
       \/ e.graph /\ e.graphApp /\ e.graphAccount
       \/ ~SmtpOnly(e) /\ ~e.graph /\ ~HasImapHost(e) /\ (e.webhook \/ e.smtp)
       \/ /\ ~e.graph /\ HasImapHost(e)
          /\ IF e.oauth2 THEN e.imapApp ELSE e.imapUser /\ e.imapPass

\* main: the poller that the gate runs
Poller(e) ==
    CASE e.graph -> "graph"
      [] ~e.graph /\ HasImapHost(e) -> "imap"
      [] OTHER -> "none"

\* The settings the poller uses when it logs in, whatever Load asks for: the
\* Graph poller redeems its refresh token (the account is only logged), and
\* connect names the user to the IMAP server in both of its modes.
Credentials(e) ==
    CASE Poller(e) = "graph"               -> {"graphApp"}
      [] Poller(e) = "imap" /\ e.oauth2    -> {"imapApp", "imapUser"}
      [] Poller(e) = "imap" /\ ~e.oauth2   -> {"imapUser", "imapPass"}
      [] OTHER                             -> {}

Missing(e) == {c \in Credentials(e) : ~e[c]}

\* Mail can come in, and the poller can log in.
Usable(e) ==
    /\ Poller(e) # "none" \/ e.smtp \/ e.webhook
    /\ Missing(e) = {}

\* The one case that Load lets through although its poller can never log in:
\* XOAUTH2 for nobody, with IMAP_USER left out.
Nameless(e) == Poller(e) = "imap" /\ e.oauth2 /\ Missing(e) = {"imapUser"}
=============================================================================
