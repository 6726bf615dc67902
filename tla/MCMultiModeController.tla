------------------------ MODULE MCMultiModeController ------------------------
(* Instances of MultiModeController for TLC, after dual_multimode.yaml:    *)
(* single-arm controllets for either arm and a controllet for both.        *)
EXTENDS MultiModeController

CONSTANTS left, right, impLeft, impRight, velRight, dual

MCArms == {left, right}
MCControllets == {impLeft, impRight, velRight, dual}
MCResource ==
  [c \in MCControllets |->
     CASE c = impLeft -> {left} [] c = dual -> {left, right} [] OTHER -> {right}]
MCStartSet == {impLeft, impRight}
OnlyDual == {dual}
MCCommanded == {impLeft, dual}

=============================================================================
