--------------------------- MODULE MCLimiterReload ---------------------------
(* Instances of LimiterReload for TLC.                                     *)
EXTENDS LimiterReload, TLC

CONSTANTS s1, s2, r1, r2, r3

MCSiteOf == [r \in {r1, r2, r3} |-> IF r = r3 THEN s2 ELSE s1]
MCLimits == {<<1, 2>>, <<2, 2>>}

\* The first site is raised, lowered, deleted and recreated; the second deleted and recreated.
MCConfigs == {c \in [{s1, s2} -> MCLimits \cup {NotConfigured}] :
                 c[s2] = <<1, 2>> \/ (c[s2] = NotConfigured /\ c[s1] = <<1, 2>>)}

=============================================================================
