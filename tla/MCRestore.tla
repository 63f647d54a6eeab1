--------------------------------- MODULE MCRestore ---------------------------------
(* One instance of the restore: two monitors, one of which may be unplugged, and a        *)
(* virtual display.                                                                       *)
EXTENDS RestoreProperties

CONSTANTS left, right, vdd

MCDisplays == {left, right}
MCUserLayouts == {{left, right}}
MCSessionLayouts == {{left, vdd}}
MCRemovable == {right}
MCBackoff == <<0, 1>>

================================================================================
