---------------------------- MODULE MCPluginManager ----------------------------
EXTENDS PluginManager
===============================================================================
