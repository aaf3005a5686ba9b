----------------------------- MODULE PostgresConfig -----------------------------
(***************************************************************************)
(* The settings of the PostgreSQL check and the connection they describe     *)
(* (postgres.go): pgx parses the DSN into one target to dial and the         *)
(* fallbacks behind it, and postgresConfig overrides parts of the first.     *)
(*                                                                         *)
(* User, password and database name make no difference here but that one of  *)
(* them alone asks for the check.                                            *)
(***************************************************************************)
EXTENDS Integers, Sequences

CONSTANTS
    Hosts,        \* hosts of a DSN or of postgres.host
    Socket,       \* the directory of pgx's default host, a unix socket
    DefaultPort,  \* pgx's default port
    Unset         \* the empty setting

Ports == 0 .. 65535
SSLModes == {"disable", "allow", "prefer", "require", "verify-ca", "verify-full"}

ASSUME PostgresAssumption == Socket \notin Hosts /\ DefaultPort \in Ports /\ Unset \notin Hosts \cup Int

\* A DSN names any number of hosts, each with its port, and one sslmode.
DSNs == [bad : BOOLEAN, hosts : Seq([host : Hosts, port : Ports]), sslmode : SSLModes]

Settings ==
    [dsn : DSNs \cup {Unset}, host : Hosts \cup {Unset}, port : Int \cup {Unset},
     sslmode : SSLModes \cup {Unset, "unknown"}, other : BOOLEAN]

\* Whether any of the settings is given.
Configured(s) == s.dsn # Unset \/ s.host # Unset \/ s.port # Unset \/ s.sslmode # Unset \/ s.other

-----------------------------------------------------------------------------
(* A target: host, port, and how the connection is secured. "ca" checks who   *)
(* signed the server's certificate, "full" also that it names name.          *)

Plain == [kind |-> "plain", name |-> Unset]
Encrypted(host) == [kind |-> "tls", name |-> host]
Verified(host) == [kind |-> "full", name |-> host]

\* pgx: what it tries for a host, one after the other.
Attempts(mode, host) ==
    CASE mode = "disable"     -> <<Plain>>
      [] mode = "allow"       -> <<Plain, Encrypted(host)>>
      [] mode = "prefer"      -> <<Encrypted(host), Plain>>
      [] mode = "require"     -> <<Encrypted(host)>>
      [] mode = "verify-ca"   -> <<[kind |-> "ca", name |-> host]>>
      [] mode = "verify-full" -> <<Verified(host)>>

\* pgx.ParseConfig: every host with every attempt. Without a host it dials the
\* socket, and never encrypts that.
ParseConfig(dsn) ==
    IF dsn = Unset \/ dsn.hosts = << >>
    THEN << [host |-> Socket, port |-> DefaultPort, tls |-> Plain] >>
    ELSE LET n == Len(Attempts(dsn.sslmode, Socket))
             Target(k) == LET h == dsn.hosts[((k - 1) \div n) + 1] IN
                          [host |-> h.host, port |-> h.port,
                           tls |-> Attempts(dsn.sslmode, h.host)[((k - 1) % n) + 1]]
         IN  [k \in 1 .. n * Len(dsn.hosts) |-> Target(k)]

RequireIsPreferred(mode, host, tls) ==           \* mutant: falls through to the DSN's
    CASE mode = "disable" -> Plain
      [] mode \in {"allow", "prefer"} -> Encrypted(host)
      [] mode \in {"verify-ca", "verify-full"} -> Verified(host)
      [] OTHER -> tls

\* applySSLMode. A mode it does not know changes nothing.
ApplySSLMode(mode, host, tls) ==
    CASE mode = "disable" -> Plain
      [] mode \in {"allow", "prefer", "require"} -> Encrypted(host)
      [] mode \in {"verify-ca", "verify-full"} -> Verified(host)
      [] OTHER -> tls

\* postgresConfig fails on a DSN or a port that cannot be parsed.
BadConfig(s) == (s.dsn # Unset /\ s.dsn.bad) \/ (s.port # Unset /\ s.port \notin Ports)

Given(setting, otherwise) == IF setting # Unset THEN setting ELSE otherwise

\* The first target with the settings in place of the DSN's: the TLS name is that
\* of the new host only if an sslmode is given too.
Override(t, s) ==
    LET host == Given(s.host, t.host) IN
    [host |-> host, port |-> Given(s.port, t.port), tls |-> ApplySSLMode(s.sslmode, host, t.tls)]

\* postgresConfig: cfg is the first target, cfg.Fallbacks are left as they are.
PostgresTargets(s) == [ParseConfig(s.dsn) EXCEPT ![1] = Override(@, s)]

\* The connection is to the host and port of the settings, secured as they say.
AsConfigured(t, s) ==
    /\ s.host # Unset => t.host = s.host
    /\ s.port # Unset => t.port = s.port
    /\ s.sslmode = "disable" => t.tls = Plain
    /\ s.sslmode = "require" => t.tls.kind # "plain"
    /\ s.sslmode \in {"verify-ca", "verify-full"} => t.tls = Verified(t.host)

\* One of the targets pgx falls back to.
Fallback(t, s) == \E k \in 2 .. Len(ParseConfig(s.dsn)) : t = ParseConfig(s.dsn)[k]
=============================================================================
