---------------------------- MODULE MCModuleStore ----------------------------
EXTENDS ModuleStore, TLC

\* main imports lib; lib and util import each other.
MCModules == {"main", "lib", "util"}
MCImports == "main" :> {"lib"} @@ "lib" :> {"util"} @@ "util" :> {"lib"}

\* Modules changed on their own, with what imports them, and with what does not.
MCDeployments == {{"main"}, {"lib"}, {"main", "lib"}, {"main", "lib", "util"}}
=============================================================================
