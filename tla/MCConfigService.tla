--------------------------- MODULE MCConfigService ---------------------------
(***************************************************************************)
(* Inputs for TLC: two hosts, two certificate names, one site that can be  *)
(* disabled, certificates that can be the default or disabled.             *)
(***************************************************************************)
EXTENDS ConfigService

MCExampleSite == [host |-> "example", enabled |-> TRUE, https |-> TRUE]
MCExampleCert == [name |-> "dev", domain |-> "example", pem |-> 1, enabled |-> TRUE, default |-> TRUE]

MCSites == {MCExampleSite, [host |-> "api", enabled |-> TRUE, https |-> TRUE],
            [host |-> "api", enabled |-> TRUE, https |-> FALSE],
            [host |-> "example", enabled |-> FALSE, https |-> FALSE]}

MCCerts == {MCExampleCert,
            [MCExampleCert EXCEPT !.default = FALSE],
            [name |-> "api", domain |-> "api", pem |-> 2, enabled |-> TRUE, default |-> TRUE],
            [name |-> "api", domain |-> "api", pem |-> 2, enabled |-> TRUE, default |-> FALSE]}

MCBackups == {[sites |-> << [host |-> "api", enabled |-> TRUE, https |-> TRUE], MCExampleSite >>,
               certs |-> << [name |-> "api", domain |-> "api", pem |-> 2, enabled |-> TRUE,
                             default |-> FALSE], MCExampleCert >>,
               settings |-> 2]}

=============================================================================
