------------------------------ MODULE MCTrust ------------------------------
EXTENDS Trust, TLC

CONSTANTS p1, p2, u1

Line_(profile, config, flags) == [profile |-> profile, config |-> config, flags |-> flags]

\* A plain verify, the strict profile from the command line and from a
\* configuration with an unknown key (refused), and one with a type error.
CommandLines ==
  {Line_("none", NoConfig, {}),
   Line_("strict", NoConfig, {}),
   Line_("none", [status |-> "unknownKey", profile |-> "strict", on |-> {}, off |-> {}], {}),
   Line_("none", [status |-> "typeError", profile |-> "strict", on |-> {}, off |-> {}], {})}

Plan(commands) == [c \in Commands |-> Cardinality({x \in commands : x[1] = c})]

\* What strict verification needs; a rotation between two seals; two first
\* uses of a key file.
CommandPlans ==
  {Plan({<<"seal", 1>>, <<"publish", 1>>, <<"attest", 1>>, <<"verify", 1>>}),
   Plan({<<"seal", 1>>, <<"seal", 2>>, <<"rotateKey", 1>>, <<"verify", 1>>}),
   Plan({<<"sealKeyFile", 1>>, <<"sealKeyFile", 2>>, <<"verify", 1>>})}

Symmetry == Permutations({p1, p2})
=============================================================================
