------------------------------- MODULE Ovftool -------------------------------
(***************************************************************************)
(* Where `stembuild package -vmdk` finds VMware's ovftool: on the PATH, or  *)
(* somewhere below an install directory.  The directories come from the     *)
(* registry on Windows and are fixed on macOS; elsewhere there are none.    *)
(***************************************************************************)
EXTENDS Naturals

Platform == {"windows", "darwin", "other"}

(* The registry keys in the order they are opened.                          *)
KeyPaths == 1 .. 4
KeyState == {"absent", "withoutPath", "withPath"}

(* A search directory: missing, walked without a hit, its walk ended by an  *)
(* entry that cannot be read, or walked as far as an executable ovftool.    *)
DirState == {"missing", "without", "unreadable", "with"}

Machine == [platform : Platform, onPath : BOOLEAN, key : [KeyPaths -> KeyState],
            dirs : SUBSET DirState]

(* The first key that opens is the only one read.                           *)
VmwareInstallPaths(m) ==
  \E k \in KeyPaths : /\ m.key[k] = "withPath"
                      /\ \A j \in 1 .. k - 1 : m.key[j] = "absent"

(* Whether SearchPaths returns without an error.                            *)
SearchPaths(m) == m.platform = "windows" => VmwareInstallPaths(m)

FindExecutable(m) == "with" \in m.dirs

OvftoolDarwin(m)   == m.onPath \/ FindExecutable(m)
OvftoolWindows(m)  == m.onPath \/ FindExecutable(m)
OvftoolPortable(m) == m.onPath

Found(m) ==
  CASE m.platform = "darwin"  -> OvftoolDarwin(m)
    [] m.platform = "windows" -> OvftoolWindows(m)
    [] m.platform = "other"   -> OvftoolPortable(m)

(* What ValidateSourceParameters and ConvertVMX2OVA require.                *)
Located(m) == SearchPaths(m) /\ Found(m)

(* "The VMware 'ovftool' binary must be on your path or Fusion/Workstation   *)
(* must be installed" (commandparser/package_stemcell.go).                   *)
Available(m) ==
  \/ m.onPath
  \/ FindExecutable(m) /\ CASE m.platform = "darwin"  -> TRUE
                              [] m.platform = "windows" -> \E k \in KeyPaths : m.key[k] = "withPath"
                              [] m.platform = "other"   -> FALSE
=============================================================================
