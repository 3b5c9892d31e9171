---------------------------- MODULE MCDesktopStartup ----------------------------
EXTENDS DesktopStartup
===============================================================================
