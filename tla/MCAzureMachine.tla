--------------------------- MODULE MCAzureMachine ---------------------------
(* AzureMachine on two legacy releases and a Cluster API release, with label
   values of up to four characters.                                        *)
EXTENDS AzureMachine

V(major, minor) == [major |-> major, minor |-> minor, patch |-> 0, pre |-> 0]

MCVersions == {V(1, 0), V(1, 1), V(2, 0)}

MCAlphaPres == {}

MCOperator == [v \in MCVersions |-> IF v = V(2, 0) THEN NoOperator ELSE v.minor]

Symmetry == Permutations(Requests)

MCToLower == [c \in {"B"} |-> "b"]

MCSupportedAZs == [t \in {"zonal", "flat"} |-> IF t = "zonal" THEN {"1", "2"} ELSE {}]

MCOrganizations == {<<"a">>, <<"a", "-", "b">>}

Acme == <<"a", ".", "B">>

LabelValues == {<<>>, <<"a">>, <<"B">>}
               \cup {<<"a">> \o v \o <<"B">> : v \in {<<>>, <<"-">>, <<".">>} \cup
                                                     ({"-", "."} \X {"-", "."})}

Machine(v, az, t) ==
    [organization |-> Acme, release |-> v, operator |-> NoOperator, sshKey |-> FALSE,
     location |-> Home, failureDomain |-> az, vmSize |-> t, caching |-> "", defects |-> {},
     deleting |-> FALSE]

Base == Machine(V(1, 0), "1", "zonal")

\* Every release and none, every kind of failure domain and every way to get
\* a machine wrong.
MCEdits ==
    {Machine(v, "1", "zonal") : v \in MCVersions \cup {NoRelease}}
    \cup {Machine(V(1, 0), az, "zonal") : az \in {"2", "", Nil}}
    \cup {[Base EXCEPT !.vmSize = "flat"], [Base EXCEPT !.sshKey = TRUE],
          [Base EXCEPT !.location = Elsewhere], [Base EXCEPT !.defects = Fields],
          [Base EXCEPT !.organization = <<"a">>]}

\* These and every label value, and what only a creation looks at.
MCNewMachines ==
    MCEdits
    \cup {[Base EXCEPT !.vmSize = "remote"], [Base EXCEPT !.location = ""],
          [Base EXCEPT !.operator = 1], [Base EXCEPT !.caching = "None"],
          [Base EXCEPT !.organization = NoLabel]}
    \cup {[Base EXCEPT !.organization = v] : v \in LabelValues}
=============================================================================
