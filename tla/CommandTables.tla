---------------------------- MODULE CommandTables ----------------------------
(***************************************************************************)
(* The tools that are short scripts of commands: each statement is one     *)
(* command on one facet of the machine a call is about (an address, a      *)
(* service, a DNS record, ...), with what the tool does when it fails.     *)
(*                                                                         *)
(*   Must   the tool answers an error, or raises, and does no more         *)
(*   Judge  the tool goes on, and answers an error in the end              *)
(*   Half   the tool answers "partial"                                     *)
(*   Try    nobody looks                                                   *)
(*                                                                         *)
(* A PowerShell script ends at a failure only under -ErrorAction Stop or   *)
(* $ErrorActionPreference; its status is that of its last statement, and a *)
(* listing in @() ends with ConvertTo-Json.  Several actions of one tool   *)
(* are tools of their own here (manage_service); the options its caller    *)
(* sets choose one of a tool's scripts.                                    *)
(***************************************************************************)
EXTENDS Sequences

Statement(op, facet, fail) == [op |-> op, on |-> facet, fail |-> fail]
Must(op, facet) == Statement(op, facet, "must")
Judge(op, facet) == Statement(op, facet, "judge")
Half(op, facet) == Statement(op, facet, "half")
Try(op, facet) == Statement(op, facet, "try")

-----------------------------------------------------------------------------
(* libvirt server *)

HostSystem == [
    host_shutdown |-> {<<Must("put", "power")>>},
    host_reboot |-> {<<Must("put", "power")>>},
    run_command |-> {<<Must("put", "other")>>},
    get_os_info |-> {<<Try("look", "name"), Try("look", "other")>>}]

\* Faulty variant: the answer tells of the link, not of the address.
HostNetworkLink == [
    list_host_interfaces |-> {<<Must("look", "address")>>},
    set_host_ip |-> {<<Try("wipe", "address"), Try("add", "address"), Judge("put", "link")>>,
                     <<Try("add", "address"), Judge("put", "link")>>},
    get_host_routes |-> {<<Must("look", "route")>>},
    set_default_gateway |-> {<<Try("drop", "route"), Must("new", "route")>>}]

\* Faulty variant: the new address first, and then the flush.
HostNetworkFlushLast == [
    list_host_interfaces |-> {<<Must("look", "address")>>},
    set_host_ip |-> {<<Judge("add", "address"), Try("wipe", "address"), Try("put", "link")>>,
                     <<Judge("add", "address"), Try("put", "link")>>},
    get_host_routes |-> {<<Must("look", "route")>>},
    set_default_gateway |-> {<<Try("drop", "route"), Must("new", "route")>>}]

HostNetwork == [
    list_host_interfaces |-> {<<Must("look", "address")>>},
    set_host_ip |-> {<<Try("wipe", "address"), Judge("add", "address"), Try("put", "link")>>,
                     <<Judge("add", "address"), Try("put", "link")>>},
    get_host_routes |-> {<<Must("look", "route")>>},
    set_default_gateway |-> {<<Try("drop", "route"), Must("new", "route")>>}]

HostServices == [
    list_services |-> {<<Try("look", "unit")>>},
    manage_start |-> {<<Must("put", "unit")>>},
    manage_stop |-> {<<Must("wipe", "unit")>>},
    manage_enable |-> {<<Must("put", "boot")>>},
    manage_disable |-> {<<Must("wipe", "boot")>>},
    manage_status |-> {<<Must("find", "unit")>>}]

HostPackages == [
    install_package |-> {<<Try("put", "index"), Must("put", "package")>>,
                         <<Must("put", "package")>>},
    remove_package |-> {<<Must("wipe", "package")>>},
    get_host_processes |-> {<<Try("look", "process")>>},
    set_hostname |-> {<<Must("put", "name")>>}]

\* resize_volume compares the sizes before it resizes.
Volumes == [
    list_storage_pools |-> {<<Must("look", "volume")>>},
    list_volumes |-> {<<Must("look", "volume")>>},
    create_volume |-> {<<Must("new", "volume")>>},
    delete_volume |-> {<<Must("find", "volume"), Must("drop", "volume")>>},
    resize_volume |-> {<<Must("find", "volume"), Must("put", "size")>>}]

VirtualNetworks == [
    list_networks |-> {<<Must("look", "network")>>},
    get_network_info |-> {<<Must("find", "network")>>},
    get_dhcp_leases |-> {<<Must("find", "network"), Try("look", "network")>>},
    list_bridges |-> {<<Must("look", "network")>>},
    list_vm_interfaces |-> {<<Must("find", "domain")>>}]

Consoles == [
    get_vnc_info |-> {<<Must("find", "domain"), Must("look", "domain")>>},
    list_vnc_ports |-> {<<Must("look", "domain")>>},
    get_console_uri |-> {<<Must("find", "domain")>>}]

-----------------------------------------------------------------------------
(* Active Directory server *)

\* Only the deletion runs under -ErrorAction Stop.  add_dns_record refuses types and
\* lifetimes that delete_dns_record takes: update_dns_record deletes first.
Dns == [
    list_dns_zones |-> {<<Try("look", "record")>>},
    list_dns_records |-> {<<Try("look", "record")>>},
    add_dns_record |-> {<<Must("refuse", "record"), Try("add", "record")>>,
                        <<Try("add", "record")>>},
    update_dns_record |-> {<<Must("drop", "record"), Must("refuse", "record"),
                             Try("add", "record")>>,
                           <<Must("drop", "record"), Try("add", "record")>>},
    delete_dns_record |-> {<<Must("drop", "record")>>}]

Dhcp == [
    list_dhcp_scopes |-> {<<Try("look", "scope")>>},
    get_dhcp_scope |-> {<<Must("find", "scope")>>},
    add_dhcp_scope |-> {<<Must("new", "scope")>>},
    remove_dhcp_scope |-> {<<Must("drop", "scope")>>},
    list_dhcp_leases |-> {<<Try("find", "scope")>>},
    add_dhcp_reservation |-> {<<Must("new", "reservation")>>},
    delete_dhcp_reservation |-> {<<Must("drop", "reservation")>>}]

Gpo == [
    list_gpos |-> {<<Try("look", "gpo")>>},
    get_gpo |-> {<<Must("find", "gpo")>>},
    create_gpo |-> {<<Must("new", "gpo")>>},
    delete_gpo |-> {<<Must("drop", "gpo")>>},
    link_gpo |-> {<<Must("new", "gplink")>>},
    unlink_gpo |-> {<<Must("drop", "gplink")>>},
    restore_gpo |-> {<<Must("put", "gposettings")>>},
    backup_gpo |-> {<<Try("put", "other"), Must("find", "gpo")>>}]

-----------------------------------------------------------------------------
(* WinRM server *)

WinUsers == [
    list_users |-> {<<Try("look", "user")>>},
    list_local_groups |-> {<<Try("look", "member")>>},
    get_group_members |-> {<<Try("look", "member")>>},
    add_local_user |-> {<<Must("new", "user")>>,
                        <<Must("new", "user"), Try("add", "member")>>},
    remove_local_user |-> {<<Must("drop", "user")>>}]

WinServices == [
    list_services |-> {<<Try("look", "unit")>>},
    get_service |-> {<<Must("look", "unit")>>},
    manage_start |-> {<<Must("put", "unit")>>},
    manage_stop |-> {<<Must("wipe", "unit")>>},
    manage_pause |-> {<<Must("put", "paused")>>},
    manage_resume |-> {<<Must("wipe", "paused")>>},
    manage_enable |-> {<<Must("put", "boot")>>},
    manage_disable |-> {<<Must("wipe", "boot")>>}]

WinProcesses == [
    list_processes |-> {<<Try("look", "process")>>},
    kill_process |-> {<<Must("drop", "process")>>}]

WinNetwork == [
    get_network_adapters |-> {<<Try("look", "address")>>},
    get_network_config |-> {<<Try("look", "address")>>},
    get_routes |-> {<<Try("look", "route")>>},
    set_dns |-> {<<Must("put", "resolver")>>}]

WinDisk == [
    get_disk_info |-> {<<Try("look", "other")>>},
    list_volumes |-> {<<Try("look", "other")>>},
    get_drive_usage |-> {<<Try("look", "other")>>}]

WinEvents == [
    get_event_logs |-> {<<Must("look", "other")>>},
    query_event_log |-> {<<Must("look", "other")>>}]

\* Rename-Computer fails without ending the script; reboot and shutdown do not look.
WinSystem == [
    get_system_info |-> {<<Must("look", "name")>>},
    get_os_info |-> {<<Must("look", "other")>>},
    set_hostname |-> {<<Try("put", "name")>>},
    reboot |-> {<<Try("put", "power")>>},
    shutdown |-> {<<Try("put", "power")>>}]

WinExec == [
    run_ps |-> {<<Must("put", "other")>>},
    run_cmd |-> {<<Must("put", "other")>>}]

-----------------------------------------------------------------------------
(* bash server *)

\* Faulty variant: a password that cannot be set is an error like any other.
ShUsersAllOrNothing == [
    list_users |-> {<<Try("look", "user")>>},
    get_user |-> {<<Must("find", "user"), Try("look", "user"), Try("look", "member")>>},
    add_user |-> {<<Must("new", "user")>>,
                  <<Must("new", "user"), Must("put", "password")>>},
    delete_user |-> {<<Must("drop", "user")>>},
    change_password |-> {<<Must("put", "password")>>}]

ShUsers == [
    list_users |-> {<<Try("look", "user")>>},
    get_user |-> {<<Must("find", "user"), Try("look", "user"), Try("look", "member")>>},
    add_user |-> {<<Must("new", "user")>>,
                  <<Must("new", "user"), Half("put", "password")>>},
    delete_user |-> {<<Must("drop", "user")>>},
    change_password |-> {<<Must("put", "password")>>}]

ShPackages == [
    list_packages |-> {<<Try("look", "package")>>},
    install_package |-> {<<Must("put", "package")>>},
    remove_package |-> {<<Must("wipe", "package")>>},
    search_package |-> {<<Try("look", "index")>>},
    update_packages |-> {<<Must("put", "index")>>}]

ShServices == [
    list_services |-> {<<Try("look", "unit")>>},
    get_service |-> {<<Try("look", "unit"), Try("look", "boot")>>},
    manage_start |-> {<<Must("put", "unit")>>},
    manage_stop |-> {<<Must("wipe", "unit")>>},
    manage_enable |-> {<<Must("put", "boot")>>},
    manage_disable |-> {<<Must("wipe", "boot")>>}]

ShProcesses == [
    list_processes |-> {<<Try("look", "process")>>},
    get_process |-> {<<Must("find", "process")>>},
    kill_process |-> {<<Must("find", "process")>>}]

ShSystem == [
    get_os_info |-> {<<Must("look", "name")>>},
    get_uptime |-> {<<Try("look", "other")>>},
    get_hostname |-> {<<Try("look", "name")>>},
    set_hostname |-> {<<Must("put", "name")>>}]

ShDisk == [
    get_disk_usage |-> {<<Try("look", "other")>>},
    list_mounts |-> {<<Try("look", "other")>>},
    get_directory_size |-> {<<Must("find", "other")>>}]

ShNetwork == [
    get_interfaces |-> {<<Try("look", "address"), Try("look", "link")>>},
    get_routes |-> {<<Try("look", "route")>>},
    ping |-> {<<Judge("look", "other")>>},
    get_connections |-> {<<Try("look", "other")>>}]

\* A local script runs from a temporary file, written before and unlinked after it.
ShExec == [
    run_command |-> {<<Must("put", "other")>>},
    run_script |-> {<<Must("put", "other")>>}]

-----------------------------------------------------------------------------
(* The dispatch tables, by the file that holds the tools *)

LibvirtTools == [host_system |-> HostSystem, host_network |-> HostNetwork,
                 host_services |-> HostServices, host_packages |-> HostPackages,
                 volumes |-> Volumes, networks |-> VirtualNetworks, consoles |-> Consoles]
DomainTools == [dns |-> Dns, dhcp |-> Dhcp, gpo |-> Gpo]
WindowsTools == [users |-> WinUsers, services |-> WinServices, processes |-> WinProcesses,
                 network |-> WinNetwork, disk |-> WinDisk, events |-> WinEvents,
                 system |-> WinSystem, exec |-> WinExec]
ShellTools == [users |-> ShUsers, packages |-> ShPackages, services |-> ShServices,
               processes |-> ShProcesses, system |-> ShSystem, disk |-> ShDisk,
               network |-> ShNetwork, exec |-> ShExec]
Servers == [libvirt |-> LibvirtTools, active_directory |-> DomainTools,
            winrm |-> WindowsTools, bash |-> ShellTools]
=============================================================================
