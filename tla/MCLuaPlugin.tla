---------------------------- MODULE MCLuaPlugin ----------------------------
(***************************************************************************)
(* Two workers, so that two flags share a word.  MapSvr requires a module    *)
(* that the handler requires as well, and one (CoroutineMgrLogic) that       *)
(* nobody else requires; the handler requires MapSvr.                        *)
(***************************************************************************)
EXTENDS LuaPluginProps

CONSTANTS PlayerMgr, CoroutineMgr, FromClient

MCMods == {MapSvr, PlayerMgr, CoroutineMgr, FromClient}
MCNeeds == [m \in MCMods |-> CASE m = MapSvr -> {PlayerMgr, CoroutineMgr}
                             [] m = FromClient -> {PlayerMgr, MapSvr}
                             [] OTHER -> {}]
MCHandlers == {FromClient}
============================================================================
