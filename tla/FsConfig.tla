------------------------------ MODULE FsConfig ------------------------------
(***************************************************************************)
(* private/android_filesystem_config.h: fs_config gives a path of the      *)
(* image its owner and permissions, by the first rule that matches in a    *)
(* table for directories or one for files.                                 *)
(*                                                                         *)
(* A path is a sequence of pieces of text; only the pieces "*" and "/",    *)
(* the leading slash, are of one character.  "/app" followed by "-private" *)
(* is one name on disk, and two pieces since one rule ends in between: so  *)
(* a prefix of the text is a prefix of the sequence.  What a rule grants   *)
(* is one value; capabilities are nonzero in the rule for run-as only.     *)
(***************************************************************************)
EXTENDS Naturals, Sequences, SequencesExt, FiniteSetsExt

Rule(a, p) == [attributes |-> a, prefix |-> p]

\* The last rule of both tables has no prefix.
Default(a) == [attributes |-> a, prefix |-> <<>>]

android_dirs ==
  << Rule("770:system:cache", <<"cache">>),
     Rule("771:system", <<"data", "/app">>),
     Rule("771:system", <<"data", "/app", "-private">>),
     Rule("771:root", <<"data", "/dalvik-cache">>),
     Rule("771:system", <<"data", "/data">>),
     Rule("771:shell", <<"data", "/local", "/tmp">>),
     Rule("771:shell", <<"data", "/local">>),
     Rule("1771:system:misc", <<"data", "/misc">>),
     Rule("770:dhcp", <<"data", "/misc", "/dhcp">>),
     Rule("771:shared_relro", <<"data", "/misc", "/shared_relro">>),
     Rule("775:media_rw", <<"data", "/media">>),
     Rule("775:media_rw", <<"data", "/media", "/Music">>),
     Rule("771:system", <<"data">>),
     Rule("750:root:shell", <<"sbin">>),
     Rule("755:root:shell", <<"system", "/bin">>),
     Rule("755:root:shell", <<"system", "/vendor">>),
     Rule("755:root:shell", <<"system", "/xbin">>),
     Rule("755:root", <<"system", "/etc", "/ppp">>),
     Rule("755:root:shell", <<"system", "/etc">>),
     Rule("755:root:shell", <<"vendor">>), Rule("777:root", <<"sdcard">>),
     Default("755:root") >>

android_files ==
  << Rule("440:root:shell", <<"system", "/etc", "/", "init", ".goldfish.rc">>),
     Rule("550:root:shell", <<"system", "/etc", "/", "init", ".goldfish.sh">>),
     Rule("440:root:shell", <<"system", "/etc", "/", "init", ".trout.rc">>),
     Rule("550:root:shell", <<"system", "/etc", "/", "init", ".ril">>),
     Rule("550:root:shell", <<"system", "/etc", "/", "init", ".testmenu">>),
     Rule("550:dhcp:shell", <<"system", "/etc", "/dhcpcd", "/dhcpcd-run-hooks">>),
     Rule("444:radio:audio", <<"system", "/etc", "/AudioPara4.csv">>),
     Rule("555:root", <<"system", "/etc", "/ppp", "/", "*">>),
     Rule("555:root", <<"system", "/etc", "/rc.", "*">>),
     Rule("644:system", <<"data", "/app", "/", "*">>),
     Rule("644:media_rw", <<"data", "/media", "/", "*">>),
     Rule("644:system", <<"data", "/app", "-private", "/", "*">>),
     Rule("644:app", <<"data", "/data", "/", "*">>),
     Rule("755:root", <<"system", "/bin", "/", "ping">>),
     Rule("2750:root:inet", <<"system", "/bin", "/", "netcfg">>),
     Rule("755:root:shell", <<"system", "/xbin", "/", "su">>),
     Rule("6755:root", <<"system", "/xbin", "/", "librank">>),
     Rule("6755:root", <<"system", "/xbin", "/", "procrank">>),
     Rule("6755:root", <<"system", "/xbin", "/", "procmem">>),
     Rule("4770:root:radio", <<"system", "/bin", "/", "pppd-ril">>),
     Rule("750:root:shell:+setuid:+setgid", <<"system", "/bin", "/", "run-as">>),
     Rule("750:root", <<"system", "/bin", "/", "uncrypt">>),
     Rule("750:root", <<"system", "/bin", "/", "install-recovery.sh">>),
     Rule("755:root:shell", <<"system", "/bin", "/", "*">>),
     Rule("755:root:shell", <<"system", "/etc", "/", "init", ".d", "/", "*">>),
     Rule("755:root", <<"system", "/lib", "/valgrind", "/", "*">>),
     Rule("755:root", <<"system", "/lib", "64", "/valgrind", "/", "*">>),
     Rule("755:root:shell", <<"system", "/xbin", "/", "*">>),
     Rule("755:root:shell", <<"system", "/vendor", "/bin", "/", "*">>),
     Rule("755:root:shell", <<"vendor", "/bin", "/", "*">>),
     Rule("750:root:shell", <<"sbin", "/", "*">>), Rule("755:root", <<"bin", "/", "*">>),
     Rule("750:root:shell", <<"init", "*">>),
     Rule("750:root:shell", <<"sbin", "/", "fs_mgr">>),
     Rule("640:root:shell", <<"fstab.", "*">>),
     Rule("755:root:shell", <<"system", "/etc", "/", "init", ".d", "/", "*">>),
     Default("644:root") >>

Table(dir) == IF dir THEN android_dirs ELSE android_files

\* The text of a rule, without the '*' that ends a wildcard.
Wild(rule) == rule.prefix # <<>> /\ Last(rule.prefix) = "*"
Text(rule) == IF Wild(rule) THEN Front(rule.prefix) ELSE rule.prefix

\* if (path[0] == '/') path++
SkipSlash(path) == IF path # <<>> /\ Head(path) = "/" THEN Tail(path) ELSE path

\* Mutated form of Matches: every rule for a file allows partial matches.
MatchesPartly(rule, path, dir) == IsPrefix(Text(rule), path)

\* The comparison of the loop, for a rule with a prefix.
Matches(rule, path, dir) ==
  IF dir THEN IsPrefix(rule.prefix, path)
  ELSE IF Wild(rule) THEN IsPrefix(Front(rule.prefix), path)
  ELSE rule.prefix = path

\* The index of the rule at which the loop breaks, or of the last.
RuleFor(path, dir) ==
  LET table == Table(dir)
  IN  Min({k \in DOMAIN table : table[k].prefix = <<>> \/ Matches(table[k], path, dir)})

\* *uid, *gid, *mode & 07777 and *capabilities
fs_config(path, dir) == Table(dir)[RuleFor(SkipSlash(path), dir)].attributes
=============================================================================
