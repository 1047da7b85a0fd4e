---------------------------- MODULE PluginLoader ----------------------------
(***************************************************************************)
(* slim_plugin_loader.cpp: the table of dlopen() handles.  It is one for   *)
(* the process, and no lock protects it.                                   *)
(***************************************************************************)
CONSTANTS
  Plugins,        \* plugins_set
  Library         \* what is installed for a plugin

ASSUME LibraryAssumption == Library \in [Plugins -> {"none", "unloadable", "other", "plugin"}]

VARIABLE loaded_plugins

PluginTypeOK == loaded_plugins \in [Plugins -> {"missing", "null", "open", "closed"}]
PluginInit == loaded_plugins = [p \in Plugins |-> "missing"]

\* load_plugin() exposes the plugin's object in the isolate, or throws: without a file before it has
\* touched the table, otherwise with what dlopen() returned in it.  A library that does not export
\* expose_plugin is closed, and keeps its entry.
Entered(p) ==
  CASE Library[p] = "plugin" -> "open"
    [] Library[p] = "other" -> "closed"
    [] Library[p] = "unloadable" -> "null"
    [] Library[p] = "none" -> loaded_plugins[p]

LoadPlugin(p) == loaded_plugins' = [loaded_plugins EXCEPT ![p] = Entered(p)]
Exposes(p) == Library[p] = "plugin"
=============================================================================
