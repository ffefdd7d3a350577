------------------------- MODULE MCSchedulerConfig -------------------------
(* Instances of SchedulerConfig for TLC. *)
EXTENDS SchedulerConfig

\* "typo" stands for profiles the scheduler does not start with, such as an
\* unknown plugin; "nokind" for a configuration without apiVersion and kind, as
\* an import may carry it.
MCProfiles == {"logger", "plain", "typo"}
MCRests == {"tuned", "usual", "nokind"}

MCUndecodable == {c \in Config : c.rest = "nokind"}
MCStartable == {c \in Config \ MCUndecodable : c.profiles # "typo"}

MCDefault == [profiles |-> "plain", rest |-> "usual"]
MCShipped == [profiles |-> "logger", rest |-> "usual"]

MCApplied == {"plain", "typo"}
MCImported == {NoConfig, [profiles |-> "plain", rest |-> "tuned"],
               [profiles |-> "plain", rest |-> "nokind"]}
=============================================================================
