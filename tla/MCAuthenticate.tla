--------------------------- MODULE MCAuthenticate ---------------------------
(* Authenticate for TLC: a plain key, a key on a security key, one nobody
   trusts, and certificates each of which fails for at most one reason.    *)
EXTENDS Authenticate

PublicKey(k) == [kind |-> "PublicKey", key |-> k]

Cert == [kind |-> "Certificate", key |-> "soft", ca |-> "ca", valid_after |-> 0,
         valid_before |-> 1, genuine |-> TRUE, cert_type |-> "user",
         valid_principals |-> {"alice"}, critical_options |-> {}]

MCKeys == {"soft", "token", "ca"}
MCIdentities ==
    {PublicKey("soft"), PublicKey("token"), PublicKey("ca"), Cert,
     [Cert EXCEPT !.genuine = FALSE],
     [Cert EXCEPT !.ca = "token"],
     [Cert EXCEPT !.cert_type = "host"],
     [Cert EXCEPT !.valid_principals = {"bob"}],
     [Cert EXCEPT !.critical_options = {"force-command"}]}
MCTimes == {0, 1}
============================================================================
